---- MODULE Spec2Model ----
(***************************************************************************)
(* The Things request/callback bridge: one Client executing Dispatcher     *)
(* cycles (pkg/things Client.Execute), the CallbackServer it starts and    *)
(* stops, the goroutine that listens and serves, the operating system's    *)
(* ports, the `open` launcher and the external application's callbacks.    *)
(***************************************************************************)
EXTENDS Integers, Sequences, FiniteSets, TLC

VARIABLES
    envToken,     \* value of THINGS_AUTH_TOKEN in the process environment
    cfgFile,      \* the persisted config file as LoadConfig finds it
    client,       \* the Client built by NewClient: AuthToken, CallbackPort
    osBound,      \* ports bound by other processes
    stale,        \* ports still held by listeners of finished cycles
    pc,           \* position of the caller inside Client.Execute
    action,       \* the action of the running call
    opts,         \* ExecuteOptions of the running call
    given,        \* the parameter map as the caller passed it
    params,       \* the parameter map as Execute has it now
    port,         \* local variable port of Execute
    cand,         \* loop variable port of FindAvailablePort
    probes,       \* number of IsPortAvailable calls of the running call
    started,      \* CallbackServer.started
    server,       \* CallbackServer.server: is it set, is it shut down
    gpc,          \* position of the goroutine spawned by Start
    ready,        \* the ready channel of Start is closed
    listener,     \* port of the listener this instance holds, or NoPort
    response,     \* CallbackServer.response, a channel of capacity 1
    launched,     \* the arguments of buildThingsURL for the URL given to open
    httpLog,      \* the callback requests handled, with the status answered
    waits,        \* number of WaitForResponse calls of the running call
    stops,        \* number of Stop calls of the running call
    ret,          \* what Execute returns
    owed,         \* ports whose callback URL an earlier cycle launched, unanswered
    origins,      \* for each entry of httpLog, the request it answers
    arg,          \* the arguments of a function applied on its own
    out,          \* the result of that function
    cycles,       \* the Execute calls that run at the same time on one Client
    inflight      \* the requests the application has been given and not answered

vars == <<envToken, cfgFile, client, osBound, stale, pc, action, opts, given, params,
          port, cand, probes, started, server, gpc, ready, listener, response,
          launched, httpLog, waits, stops, ret, owed, origins, arg, out,
          cycles, inflight>>

\* the bookkeeping of which request a callback answers
lateVars == <<owed, origins>>

\* the variables of the functions applied on their own
fnVars == <<arg, out>>

\* the variables of the calls that run at the same time on one Client
concVars == <<cycles, inflight>>

\* ------------------------------------------------------------------ bounds

\* callbacks the external side sends to one receiver instance
MaxCallbacks == 2

\* goroutines of finished cycles that have not reached Serve yet
MaxStale == 1

\* tool handlers of the MCP server running at the same time
MaxCalls == 2

\* ------------------------------------------------------- program constants

DefaultCallbackPort == 8765
DefaultCallbackTimeoutSeconds == 10
SearchWindow == 100
ChanCap == 1
StatusOK == 200
StatusInternalServerError == 500
StatusNotFound == 404
NoPort == -1

\* ------------------------------------------------------------------- maps

\* a Go map[string]string is a function from its keys to strings
EmptyMap == [k \in {} |-> ""]

\* m[k] of Go: the zero value "" for a missing key
Get(m, k) == IF k \in DOMAIN m THEN m[k] ELSE ""

\* m[k] = v of Go
Put(m, k, v) == [x \in (DOMAIN m) \cup {k} |-> IF x = k THEN v ELSE m[x]]

\* ----------------------------------------------------------- configuration

\* the fields of the config file that Execute's client reads
ConfigFields == {"auth_token", "callback_port", "callback_timeout_seconds"}

\* the config file on disk: absent, unparseable, or a JSON object with the
\* fields named in fields
ConfigFiles ==
    { [kind |-> "absent", fields |-> {},
       auth_token |-> "", callback_port |-> 0, callback_timeout_seconds |-> 0],
      [kind |-> "corrupt", fields |-> {},
       auth_token |-> "", callback_port |-> 0, callback_timeout_seconds |-> 0],
      [kind |-> "ok", fields |-> ConfigFields,
       auth_token |-> "tokC", callback_port |-> DefaultCallbackPort,
       callback_timeout_seconds |-> DefaultCallbackTimeoutSeconds] }

EnvTokens == {"", "tokE"}

DefaultConfig ==
    [AuthToken |-> "", CallbackPort |-> DefaultCallbackPort,
     CallbackTimeoutSeconds |-> DefaultCallbackTimeoutSeconds]

\* the zero Config
ZeroConfig == [AuthToken |-> "", CallbackPort |-> 0, CallbackTimeoutSeconds |-> 0]

\* json.Unmarshal into a zero Config: a field the file does not have keeps
\* the zero value
Unmarshal(file) ==
    [AuthToken |-> IF "auth_token" \in file.fields THEN file.auth_token
                   ELSE ZeroConfig.AuthToken,
     CallbackPort |-> IF "callback_port" \in file.fields THEN file.callback_port
                      ELSE ZeroConfig.CallbackPort,
     CallbackTimeoutSeconds |->
         IF "callback_timeout_seconds" \in file.fields THEN file.callback_timeout_seconds
         ELSE ZeroConfig.CallbackTimeoutSeconds]

\* LoadConfig: the defaults when the file is absent, an error when it cannot
\* be read or parsed, the parsed record otherwise
LoadConfig(file) ==
    CASE file.kind = "absent"  -> [config |-> DefaultConfig, err |-> FALSE]
      [] file.kind = "corrupt" -> [config |-> ZeroConfig, err |-> TRUE]
      [] OTHER -> [config |-> Unmarshal(file), err |-> FALSE]

\* GetAuthToken with the two sources taken in the wrong order
GetAuthTokenConfigFirst(env, file) ==
    LET c == LoadConfig(file)
    IN  IF ~c.err /\ c.config.AuthToken # ""
        THEN [token |-> c.config.AuthToken, err |-> FALSE]
        ELSE [token |-> env, err |-> FALSE]

\* GetAuthToken: the environment variable first, then the config file
GetAuthToken(env, file) ==
    IF env # ""
    THEN [token |-> env, err |-> FALSE]
    ELSE LET c == LoadConfig(file)
         IN  IF c.err THEN [token |-> "", err |-> TRUE]
                      ELSE [token |-> c.config.AuthToken, err |-> FALSE]

\* NewClient: an empty token when GetAuthToken fails, the default config when
\* LoadConfig fails
NewClient(env, file) ==
    LET t == GetAuthToken(env, file)
        c == LoadConfig(file)
        config == IF c.err THEN DefaultConfig ELSE c.config
    IN  [AuthToken    |-> IF t.err THEN "" ELSE t.token,
         CallbackPort |-> config.CallbackPort,
         timeout      |-> config.CallbackTimeoutSeconds]

\* ------------------------------------------------------------------ values

AllOpts == [RequiresAuth : BOOLEAN, UseAuthIfAvailable : BOOLEAN]

NoOpts == [RequiresAuth |-> FALSE, UseAuthIfAvailable |-> FALSE]

\* the parameter maps callers pass: nil (an empty map once Execute has made
\* one), with an empty auth-token, with an explicit one and callback
\* parameters of the caller's own
CallerParams ==
    { EmptyMap,
      ("title" :> "Buy milk") @@ ("auth-token" :> ""),
      ("title" :> "Buy milk") @@ ("auth-token" :> "tokP")
          @@ ("x-success" :> "http://localhost:1/mine") @@ ("x-error" :> "") }

Actions == {"add"}

\* error values of Execute; kind "callback" is *CallbackError
NoErr == [kind |-> "none", Code |-> "", Message |-> "", Callback |-> EmptyMap]

ErrorOf(kind) == [kind |-> kind, Code |-> "", Message |-> "", Callback |-> EmptyMap]

CallbackError(code, message, callback) ==
    [kind |-> "callback", Code |-> code, Message |-> message, Callback |-> callback]

\* the (response, error) pair a function returns; isNil tells a nil map
Result(isNil, resp, err) ==
    [returned |-> TRUE, isNil |-> isNil, response |-> resp, err |-> err]

NoRet == [returned |-> FALSE, isNil |-> TRUE, response |-> EmptyMap, err |-> NoErr]

NoServer == [set |-> FALSE, inShutdown |-> FALSE]

\* the goroutines that call Execute on the one Client
Calls == 1 .. MaxCalls

\* the frame of Execute in a goroutine that has not called it: position,
\* params, port, whether its receiver's listener holds the port, the
\* receiver's channel, the request whose reply WaitForResponse took, the
\* values returned
NotCalled ==
    [pc |-> "idle", params |-> EmptyMap, port |-> NoPort, bound |-> FALSE,
     slot |-> <<>>, from |-> 0, ret |-> NoRet]

\* no function is being applied on its own
NoArg == [fn |-> "none"]

NoOut == [done |-> FALSE]

\* ------------------------------------------------------------------- ports

\* the ports FindAvailablePort(CallbackPort + 1) probes
Window(p) == (p + 1) .. (p + SearchWindow)

\* the port other processes bind and release while the program runs; the
\* ports of the search window are all free or all taken from the start
EnvPorts == {DefaultCallbackPort}

\* every port some listener holds
Bound == osBound \cup stale \cup (IF listener = NoPort THEN {} ELSE {listener})

\* IsPortAvailable: net.Listen succeeds (and the listener is closed at once)
IsPortAvailable(p) == p \notin Bound

RECURSIVE FindFromInclusive(_, _, _)
\* the loop with the bound startPort+100 included
FindFromInclusive(occ, p, startPort) ==
    IF p > startPort + SearchWindow THEN NoPort
    ELSE IF p \notin occ THEN p
    ELSE FindFromInclusive(occ, p + 1, startPort)

RECURSIVE FindFrom(_, _, _)
\* the loop of FindAvailablePort from candidate p on, the ports of occ taken
FindFrom(occ, p, startPort) ==
    IF p >= startPort + SearchWindow THEN NoPort
    ELSE IF p \notin occ THEN p
    ELSE FindFrom(occ, p + 1, startPort)

\* FindAvailablePort with the ports of occ taken
FindAvailablePortIn(occ, startPort) == FindFrom(occ, startPort, startPort)

FindAvailablePort(startPort) == FindAvailablePortIn(Bound, startPort)

\* the two callback parameters in a map of their own
InjectCallbacksFresh(p, q) ==
    ("x-success" :> "http://localhost:" \o ToString(q) \o "/callback?result=success")
    @@ ("x-error" :> "http://localhost:" \o ToString(q) \o "/callback?result=error")

\* the callback parameters naming the configured port, whatever port was chosen
InjectCallbacksConfigured(p, q) ==
    Put(Put(p, "x-success",
            "http://localhost:" \o ToString(DefaultCallbackPort) \o "/callback?result=success"),
        "x-error",
        "http://localhost:" \o ToString(DefaultCallbackPort) \o "/callback?result=error")

\* the two callback parameters Execute injects
InjectCallbacks(p, q) ==
    Put(Put(p, "x-success",
            "http://localhost:" \o ToString(q) \o "/callback?result=success"),
        "x-error", "http://localhost:" \o ToString(q) \o "/callback?result=error")

\* ------------------------------------------------------- callback requests

\* the query strings the external side sends to /callback, as key=value pairs
\* in the order written
Queries ==
    { << <<"result", "success">>, <<"x-things-id", "ABC-123">> >>,
      << <<"result", "error">> >>,
      << <<"result", "error">>, <<"errorCode", "E404">>, <<"errorMessage", "not found">> >> }

RECURSIVE LastValues(_, _)
\* for each key of the query its last value
LastValues(q, acc) ==
    IF q = <<>> THEN acc
    ELSE LET kv == Head(q)
         IN  LastValues(Tail(q), Put(acc, kv[1], kv[2]))

RECURSIVE FirstValues(_, _)
\* the handler's params: for each key of r.URL.Query() its first value
FirstValues(q, acc) ==
    IF q = <<>> THEN acc
    ELSE LET kv == Head(q)
         IN  FirstValues(Tail(q),
                         IF kv[1] \in DOMAIN acc THEN acc ELSE Put(acc, kv[1], kv[2]))

HandlerParams(q) == FirstValues(q, EmptyMap)

\* a handler that replaces the buffered value by the latest one
HandlerSelectOverwrite(slot, p) == [slot |-> <<p>>, status |-> StatusOK]

\* the handler's select: a non-blocking send on the channel, 200 when the
\* value was buffered and 500 when the channel is full
HandlerSelect(slot, p) ==
    IF Len(slot) < ChanCap
    THEN [slot |-> Append(slot, p), status |-> StatusOK]
    ELSE [slot |-> slot, status |-> StatusInternalServerError]

\* WaitForResponse without the timer: it blocks until a reply is buffered
WaitForResponseNoTimer(slot) ==
    IF slot # <<>>
    THEN {[isNil |-> FALSE, response |-> Head(slot), err |-> NoErr, slot |-> Tail(slot)]}
    ELSE {}

\* WaitForResponse: the outcomes its select can take, a buffered reply or the
\* timer; both when both are ready
WaitForResponse(slot) ==
    (IF slot # <<>>
     THEN {[isNil |-> FALSE, response |-> Head(slot), err |-> NoErr, slot |-> Tail(slot)]}
     ELSE {})
    \cup {[isNil |-> TRUE, response |-> EmptyMap, err |-> ErrorOf("timeout"), slot |-> slot]}

\* ---------------------------------------------------------------- Execute

\* lines 75-81 with the token attached only when RequiresAuth is set
AuthResolveRequiredOnly(p, o, token) ==
    IF Get(p, "auth-token") = "" /\ o.RequiresAuth
    THEN IF token # ""
         THEN [params |-> Put(p, "auth-token", token), fail |-> FALSE]
         ELSE [params |-> p, fail |-> TRUE]
    ELSE [params |-> p, fail |-> FALSE]

\* lines 75-81 with the token attached whatever the options say
AuthResolveAlways(p, o, token) ==
    IF Get(p, "auth-token") = ""
    THEN IF token # ""
         THEN [params |-> Put(p, "auth-token", token), fail |-> FALSE]
         ELSE [params |-> p, fail |-> o.RequiresAuth]
    ELSE [params |-> p, fail |-> FALSE]

\* lines 75-81 without the RequiresAuth failure
AuthResolveNoFail(p, o, token) ==
    IF Get(p, "auth-token") = "" /\ (o.RequiresAuth \/ o.UseAuthIfAvailable) /\ token # ""
    THEN [params |-> Put(p, "auth-token", token), fail |-> FALSE]
    ELSE [params |-> p, fail |-> FALSE]

\* lines 75-81 of Execute: attach the client's token or fail
AuthResolve(p, o, token) ==
    IF Get(p, "auth-token") = "" /\ (o.RequiresAuth \/ o.UseAuthIfAvailable)
    THEN IF token # ""
         THEN [params |-> Put(p, "auth-token", token), fail |-> FALSE]
         ELSE [params |-> p, fail |-> o.RequiresAuth]
    ELSE [params |-> p, fail |-> FALSE]

\* lines 112-121 with the error message taken as the reply gives it
ClassifyNoDefaultMessage(resp) ==
    IF Get(resp, "result") = "error"
    THEN Result(FALSE, resp,
                CallbackError(Get(resp, "errorCode"), Get(resp, "errorMessage"), resp))
    ELSE Result(FALSE, resp, NoErr)

\* lines 112-121 without the check of the result field
ClassifySuccessOnly(resp) == Result(FALSE, resp, NoErr)

\* lines 112-121 of Execute: the outcome for a reply
Classify(resp) ==
    IF Get(resp, "result") = "error"
    THEN LET code == Get(resp, "errorCode")
             message == IF Get(resp, "errorMessage") = ""
                        THEN "Things returned an error"
                        ELSE Get(resp, "errorMessage")
         IN  Result(FALSE, resp, CallbackError(code, message, resp))
    ELSE Result(FALSE, resp, NoErr)

\* the receiver is not started, no reply and no request is there, no call
\* is in progress
Fresh ==
    /\ stale = {}
    /\ pc = "idle"
    /\ action = ""
    /\ opts = NoOpts
    /\ given = EmptyMap
    /\ params = EmptyMap
    /\ cand = NoPort
    /\ probes = 0
    /\ started = FALSE
    /\ server = NoServer
    /\ gpc = "none"
    /\ ready = FALSE
    /\ listener = NoPort
    /\ response = <<>>
    /\ launched = <<>>
    /\ httpLog = <<>>
    /\ waits = 0
    /\ stops = 0
    /\ ret = NoRet
    /\ owed = {}
    /\ origins = <<>>
    /\ cycles = [i \in Calls |-> NotCalled]
    /\ inflight = {}

\* no call of Execute is in progress
Idle ==
    /\ Fresh
    /\ port = NoPort

Init ==
    /\ envToken \in EnvTokens
    /\ cfgFile \in ConfigFiles
    /\ client = NewClient(envToken, cfgFile)
    /\ osBound \in {{}, Window(DefaultCallbackPort)}
    /\ Idle
    /\ arg = NoArg
    /\ out = NoOut

\* a caller calls Execute(action, params, opts)
ExecuteCall ==
    /\ pc = "idle"
    /\ \E a \in Actions, o \in AllOpts, p \in CallerParams :
          /\ action' = a
          /\ opts' = o
          /\ given' = p
          /\ params' = p
    /\ pc' = "auth"
    /\ UNCHANGED <<fnVars, lateVars, concVars, envToken, cfgFile, client, osBound, stale, port, cand, probes,
                   started, server, gpc, ready, listener, response, launched,
                   httpLog, waits, stops, ret>>

\* lines 75-81
AuthStep ==
    /\ pc = "auth"
    /\ LET r == AuthResolve(params, opts, client.AuthToken)
       IN  IF r.fail
           THEN /\ ret' = Result(TRUE, EmptyMap, ErrorOf("auth"))
                /\ pc' = "done"
                /\ UNCHANGED params
           ELSE /\ params' = r.params
                /\ pc' = "probe"
                /\ UNCHANGED ret
    /\ UNCHANGED <<fnVars, lateVars, concVars, envToken, cfgFile, client, osBound, stale, action, opts, given,
                   port, cand, probes, started, server, gpc, ready, listener,
                   response, launched, httpLog, waits, stops>>

\* the default port taken without looking whether it is free
ProbeDefaultUnchecked ==
    /\ pc = "probe"
    /\ probes' = probes + 1
    /\ port' = client.CallbackPort
    /\ params' = InjectCallbacks(params, client.CallbackPort)
    /\ pc' = "start"
    /\ UNCHANGED <<fnVars, lateVars, concVars, envToken, cfgFile, client, osBound, stale, action, opts, given,
                   cand, started, server, gpc, ready, listener, response, launched,
                   httpLog, waits, stops, ret>>

\* lines 83-85 and, when the default port is free, 92-93
ProbeDefault ==
    /\ pc = "probe"
    /\ probes' = probes + 1
    /\ port' = client.CallbackPort
    /\ IF IsPortAvailable(client.CallbackPort)
       THEN /\ params' = InjectCallbacks(params, client.CallbackPort)
            /\ pc' = "start"
            /\ UNCHANGED cand
       ELSE /\ cand' = client.CallbackPort + 1
            /\ pc' = "find"
            /\ UNCHANGED params
    /\ UNCHANGED <<fnVars, lateVars, concVars, envToken, cfgFile, client, osBound, stale, action, opts, given,
                   started, server, gpc, ready, listener, response, launched,
                   httpLog, waits, stops, ret>>

\* one turn of the loop of FindAvailablePort(port + 1), then lines 86-93
FindStep ==
    /\ pc = "find"
    /\ IF cand >= client.CallbackPort + 1 + SearchWindow
       THEN /\ ret' = Result(TRUE, EmptyMap, ErrorOf("noport"))
            /\ pc' = "done"
            /\ UNCHANGED <<port, cand, params, probes>>
       ELSE /\ probes' = probes + 1
            /\ IF IsPortAvailable(cand)
               THEN /\ port' = cand
                    /\ params' = InjectCallbacks(params, cand)
                    /\ pc' = "start"
                    /\ UNCHANGED cand
               ELSE /\ cand' = cand + 1
                    /\ UNCHANGED <<port, params, pc>>
            /\ UNCHANGED ret
    /\ UNCHANGED <<fnVars, lateVars, concVars, envToken, cfgFile, client, osBound, stale, action, opts, given,
                   started, server, gpc, ready, listener, response, launched,
                   httpLog, waits, stops>>

\* http.Server.Shutdown: later calls of Serve fail, the listeners Serve has
\* taken are closed
Shutdown(srv, g, l) ==
    [server   |-> [srv EXCEPT !.inShutdown = TRUE],
     gpc      |-> IF g = "serving" THEN "exited" ELSE g,
     listener |-> IF g = "serving" THEN NoPort ELSE l]

\* Stop that leaves the started flag as it is
StopKeepsStarted(st, srv, g, l, graceExpired) ==
    IF ~st \/ ~srv.set
    THEN [started |-> st, server |-> srv, gpc |-> g, listener |-> l, err |-> FALSE]
    ELSE LET sd == Shutdown(srv, g, l)
         IN  [started |-> st,
              server |-> sd.server, gpc |-> sd.gpc, listener |-> sd.listener,
              err |-> graceExpired]

\* CallbackServer.Stop; graceExpired: connections were still open when the two
\* seconds of grace ran out, Shutdown returns the context's error
Stop(st, srv, g, l, graceExpired) ==
    IF ~st \/ ~srv.set
    THEN [started |-> st, server |-> srv, gpc |-> g, listener |-> l, err |-> FALSE]
    ELSE LET sd == Shutdown(srv, g, l)
         IN  [started |-> IF graceExpired THEN st ELSE FALSE,
              server |-> sd.server, gpc |-> sd.gpc, listener |-> sd.listener,
              err |-> graceExpired]

\* Start that does not look whether the receiver is started
StartCallAgain ==
    /\ pc = "start"
    /\ gpc = "serve" => Cardinality(stale) < MaxStale
    /\ server' = [set |-> TRUE, inShutdown |-> FALSE]
    /\ gpc' = "listen"
    /\ ready' = FALSE
    /\ stale' = stale \cup (IF gpc = "serve" THEN {listener} ELSE {})
    /\ listener' = NoPort
    /\ pc' = "ready"
    /\ UNCHANGED <<fnVars, lateVars, concVars, envToken, cfgFile, client, osBound, action, opts, given,
                   params, port, cand, probes, started, response,
                   launched, httpLog, waits, stops, ret>>

\* line 95 and CallbackServer.Start up to the wait on ready; the goroutine of
\* an earlier Start that has not reached Serve goes on by itself
StartCall ==
    /\ pc = "start"
    /\ IF started
       THEN /\ ret' = Result(TRUE, EmptyMap, ErrorOf("start"))
            /\ pc' = "done"
            /\ UNCHANGED <<server, gpc, ready, stale, listener>>
       ELSE /\ gpc = "serve" => Cardinality(stale) < MaxStale
            /\ server' = [set |-> TRUE, inShutdown |-> FALSE]
            /\ gpc' = "listen"
            /\ ready' = FALSE
            /\ stale' = stale \cup (IF gpc = "serve" THEN {listener} ELSE {})
            /\ listener' = IF gpc = "serve" THEN NoPort ELSE listener
            /\ pc' = "ready"
            /\ UNCHANGED ret
    /\ UNCHANGED <<fnVars, lateVars, concVars, envToken, cfgFile, client, osBound, action, opts, given,
                   params, port, cand, probes, started, response,
                   launched, httpLog, waits, stops>>

\* the goroutine of Start: net.Listen, then close(ready) whether or not the
\* bind succeeded; it returns when the bind failed
GoListen ==
    /\ gpc = "listen"
    /\ IF port \notin Bound
       THEN listener' = port /\ gpc' = "serve"
       ELSE listener' = listener /\ gpc' = "exited"
    /\ ready' = TRUE
    /\ UNCHANGED <<fnVars, lateVars, concVars, envToken, cfgFile, client, osBound, stale, pc, action, opts,
                   given, params, port, cand, probes, started, server, response,
                   launched, httpLog, waits, stops, ret>>

\* the goroutine of Start: s.server.Serve(listener); after Shutdown it returns
\* ErrServerClosed and closes the listener it was given
GoServe ==
    /\ gpc = "serve"
    /\ IF server.inShutdown
       THEN listener' = NoPort /\ gpc' = "exited"
       ELSE listener' = listener /\ gpc' = "serving"
    /\ UNCHANGED <<fnVars, lateVars, concVars, envToken, cfgFile, client, osBound, stale, pc, action, opts,
                   given, params, port, cand, probes, started, server, ready,
                   response, launched, httpLog, waits, stops, ret>>

\* Start returning without the wait on ready
StartReturnUnready ==
    /\ pc = "ready"
    /\ started' = TRUE
    /\ pc' = "launch"
    /\ UNCHANGED <<fnVars, lateVars, concVars, envToken, cfgFile, client, osBound, stale, action, opts, given,
                   params, port, cand, probes, server, gpc, ready, listener,
                   response, launched, httpLog, waits, stops, ret>>

\* Start after ready is closed (lines 107-109), then line 99
StartReturn ==
    /\ pc = "ready"
    /\ ready
    /\ started' = TRUE
    /\ pc' = "launch"
    /\ UNCHANGED <<fnVars, lateVars, concVars, envToken, cfgFile, client, osBound, stale, action, opts, given,
                   params, port, cand, probes, server, gpc, ready, listener,
                   response, launched, httpLog, waits, stops, ret>>

\* open run once more after a first failure
LaunchRetry ==
    /\ pc = "launch"
    /\ \E ok \in BOOLEAN :
          /\ launched' = Append(launched, [action |-> action, params |-> params, ok |-> ok])
          /\ IF ok THEN pc' = "wait" /\ UNCHANGED ret
             ELSE IF launched = <<>> THEN pc' = "launch" /\ UNCHANGED ret
             ELSE pc' = "stop" /\ ret' = Result(TRUE, EmptyMap, ErrorOf("launch"))
    /\ UNCHANGED <<fnVars, lateVars, concVars, envToken, cfgFile, client, osBound, stale, action, opts, given,
                   params, port, cand, probes, started, server, gpc, ready,
                   listener, response, httpLog, waits, stops>>

\* open's error dropped: the wait follows either way
LaunchThenWait ==
    /\ pc = "launch"
    /\ \E ok \in BOOLEAN :
          launched' = Append(launched, [action |-> action, params |-> params, ok |-> ok])
    /\ pc' = "wait"
    /\ UNCHANGED <<fnVars, lateVars, concVars, envToken, cfgFile, client, osBound, stale, action, opts, given,
                   params, port, cand, probes, started, server, gpc, ready,
                   listener, response, httpLog, waits, stops, ret>>

\* lines 101-105: build the URL and run open, which succeeds or fails
Launch ==
    /\ pc = "launch"
    /\ \E ok \in BOOLEAN :
          /\ launched' = Append(launched, [action |-> action, params |-> params, ok |-> ok])
          /\ IF ok
             THEN pc' = "wait" /\ UNCHANGED ret
             ELSE pc' = "stop" /\ ret' = Result(TRUE, EmptyMap, ErrorOf("launch"))
    /\ UNCHANGED <<fnVars, lateVars, concVars, envToken, cfgFile, client, osBound, stale, action, opts, given,
                   params, port, cand, probes, started, server, gpc, ready,
                   listener, response, httpLog, waits, stops>>

\* lines 107-121 with one more wait after a first timeout
WaitRetry ==
    /\ pc = "wait"
    /\ \E o \in WaitForResponse(response) :
          /\ response' = o.slot
          /\ ret' = IF o.err # NoErr
                    THEN Result(TRUE, EmptyMap, o.err)
                    ELSE Classify(o.response)
          /\ pc' = IF o.err # NoErr /\ waits = 0 THEN "wait" ELSE "stop"
    /\ waits' = waits + 1
    /\ UNCHANGED <<fnVars, lateVars, concVars, envToken, cfgFile, client, osBound, stale, action, opts, given,
                   params, port, cand, probes, started, server, gpc, ready,
                   listener, launched, httpLog, stops>>

\* lines 107-121: WaitForResponse and the classification of the reply
Wait ==
    /\ pc = "wait"
    /\ \E o \in WaitForResponse(response) :
          /\ response' = o.slot
          /\ ret' = IF o.err # NoErr
                    THEN Result(TRUE, EmptyMap, o.err)
                    ELSE Classify(o.response)
    /\ waits' = waits + 1
    /\ pc' = "stop"
    /\ UNCHANGED <<fnVars, lateVars, concVars, envToken, cfgFile, client, osBound, stale, action, opts, given,
                   params, port, cand, probes, started, server, gpc, ready,
                   listener, launched, httpLog, stops>>

\* the deferred callbackServer.Stop(), then Execute returns
DeferredStop ==
    /\ pc = "stop"
    /\ \E graceExpired \in (IF gpc = "serving" THEN BOOLEAN ELSE {FALSE}) :
          LET r == Stop(started, server, gpc, listener, graceExpired)
          IN  /\ started' = r.started
              /\ server' = r.server
              /\ gpc' = r.gpc
              /\ listener' = r.listener
    /\ stops' = stops + 1
    /\ pc' = "done"
    /\ UNCHANGED <<fnVars, lateVars, concVars, envToken, cfgFile, client, osBound, stale, action, opts, given,
                   params, port, cand, probes, ready, response, launched, httpLog,
                   waits, ret>>

\* the caller has the result; the call's frame and its receiver are dropped,
\* a goroutine that has not reached Serve keeps its listener
ReturnFrame ==
    /\ pc = "done"
    /\ listener # NoPort => Cardinality(stale) < MaxStale
    /\ stale' = stale \cup (IF listener = NoPort THEN {} ELSE {listener})
    /\ pc' = "idle"
    /\ action' = "" /\ opts' = NoOpts /\ given' = EmptyMap /\ params' = EmptyMap
    /\ port' = NoPort /\ cand' = NoPort /\ probes' = 0
    /\ started' = FALSE /\ server' = NoServer /\ gpc' = "none" /\ ready' = FALSE
    /\ listener' = NoPort /\ response' = <<>>
    /\ launched' = <<>> /\ httpLog' = <<>> /\ waits' = 0 /\ stops' = 0
    /\ ret' = NoRet
    /\ UNCHANGED <<fnVars, concVars, envToken, cfgFile, client, osBound>>

Return ==
    /\ ReturnFrame
    /\ UNCHANGED lateVars

\* the goroutine of a finished cycle reaches Serve: ErrServerClosed, its
\* listener is closed
StaleServe ==
    /\ \E p \in stale : stale' = stale \ {p}
    /\ UNCHANGED <<fnVars, lateVars, concVars, envToken, cfgFile, client, osBound, pc, action, opts, given,
                   params, port, cand, probes, started, server, gpc, ready,
                   listener, response, launched, httpLog, waits, stops, ret>>

\* another process binds a free port
OSBind ==
    /\ \E p \in EnvPorts \ Bound : osBound' = osBound \cup {p}
    /\ UNCHANGED <<fnVars, lateVars, concVars, envToken, cfgFile, client, stale, pc, action, opts, given,
                   params, port, cand, probes, started, server, gpc, ready,
                   listener, response, launched, httpLog, waits, stops, ret>>

\* another process closes its listener
OSRelease ==
    /\ \E p \in EnvPorts \cap osBound : osBound' = osBound \ {p}
    /\ UNCHANGED <<fnVars, lateVars, concVars, envToken, cfgFile, client, stale, pc, action, opts, given,
                   params, port, cand, probes, started, server, gpc, ready,
                   listener, response, launched, httpLog, waits, stops, ret>>

\* the pattern the handler is registered under
CallbackPath == "/callback"

\* a request on the receiver's port: the mux gives a request to /callback
\* to the handler, whatever its method, and answers any other path 404
ServeHTTP(path, method, q) ==
    LET p == HandlerParams(q)
        h == IF path = CallbackPath
             THEN HandlerSelect(response, p)
             ELSE [slot |-> response, status |-> StatusNotFound]
    IN  /\ gpc = "serving"
        /\ Len(httpLog) < MaxCallbacks
        /\ response' = h.slot
        /\ httpLog' = Append(httpLog, [path |-> path, method |-> method, query |-> q,
                                       params |-> IF path = CallbackPath THEN p ELSE EmptyMap,
                                       status |-> h.status])
        /\ UNCHANGED <<fnVars, concVars, envToken, cfgFile, client, osBound, stale, pc, action, opts,
                       given, params, port, cand, probes, started, server, gpc, ready,
                       listener, launched, waits, stops, ret>>

\* the external application opens a callback URL
Handle(q) == ServeHTTP(CallbackPath, "GET", q)

Callback ==
    /\ \E q \in Queries : Handle(q)
    /\ UNCHANGED lateVars

Next ==
    \/ ExecuteCall
    \/ AuthStep
    \/ ProbeDefault
    \/ FindStep
    \/ StartCall
    \/ GoListen
    \/ GoServe
    \/ StartReturn
    \/ Launch
    \/ Wait
    \/ DeferredStop
    \/ Return
    \/ StaleServe
    \/ OSBind
    \/ OSRelease
    \/ Callback

Spec == Init /\ [][Next]_vars

\* the steps of the goroutine calling Execute
Caller ==
    \/ AuthStep \/ ProbeDefault \/ FindStep \/ StartCall \/ StartReturn
    \/ Launch \/ Wait \/ DeferredStop

\* the steps of the goroutine Start spawns
Goroutine == GoListen \/ GoServe

\* the Go scheduler runs every runnable goroutine; open exits, the timer of
\* WaitForResponse fires, Shutdown is bounded by its context
LiveSpec == Init /\ [][Next]_vars /\ WF_vars(Caller) /\ WF_vars(Goroutine)

\* ------------------------------------------- replies and their requests

\* the callback URL carries the port and nothing of the request: a launched
\* URL whose callback has not come yet is owed to that port
LaunchedOk == launched # <<>> /\ launched[Len(launched)].ok

Answered == \E i \in DOMAIN origins : origins[i] = "own"

\* the application answers the URL this cycle launched
CallbackOwn ==
    /\ LaunchedOk
    /\ \E q \in Queries : Handle(q)
    /\ origins' = Append(origins, "own")
    /\ owed' = owed

\* the application answers a URL an earlier cycle launched on the same port
CallbackEarlier ==
    /\ listener \in owed
    /\ \E q \in Queries : Handle(q)
    /\ origins' = Append(origins, "earlier")
    /\ owed' = owed \ {listener}

\* Execute returns; the callback of a launched and unanswered URL is still
\* to come
ReturnOwing ==
    /\ ReturnFrame
    /\ owed' = IF LaunchedOk /\ ~Answered THEN owed \cup {port} ELSE owed
    /\ origins' = <<>>

InitLate ==
    /\ Init
    /\ envToken = ""
    /\ cfgFile.kind = "absent"
    /\ osBound = {}

NextLate ==
    \/ ExecuteCall
    \/ AuthStep
    \/ ProbeDefault
    \/ FindStep
    \/ StartCall
    \/ GoListen
    \/ GoServe
    \/ StartReturn
    \/ Launch
    \/ Wait
    \/ DeferredStop
    \/ ReturnOwing
    \/ StaleServe
    \/ OSBind
    \/ OSRelease
    \/ CallbackOwn
    \/ CallbackEarlier

SpecLate == InitLate /\ [][NextLate]_vars

\* --------------------------------------- a receiver used by itself

\* the requests sent to the receiver's port
RequestPaths == {CallbackPath, "/callback/", "/"}

RequestMethods == {"GET", "POST"}

RequestQueries ==
    { << <<"result", "success">>, <<"x-things-id", "ABC-123">> >>,
      << <<"result", "error">>, <<"result", "success">>, <<"errorCode", "E404">> >>,
      << >> }

\* a caller calls Start on the receiver
CallStart ==
    /\ pc \in {"idle", "launch", "done"}
    /\ pc' = "start"
    /\ arg' = [fn |-> "Start", started |-> started]
    /\ out' = NoOut
    /\ ret' = NoRet
    /\ UNCHANGED <<lateVars, concVars, envToken, cfgFile, client, osBound, stale, action, opts, given,
                   params, port, cand, probes, started, server, gpc, ready,
                   listener, response, launched, httpLog, waits, stops>>

\* a caller calls Stop on the receiver
CallStop ==
    /\ pc \in {"idle", "launch", "done"}
    /\ pc' = "stop"
    /\ arg' = [fn |-> "Stop", started |-> started]
    /\ out' = NoOut
    /\ ret' = NoRet
    /\ UNCHANGED <<lateVars, concVars, envToken, cfgFile, client, osBound, stale, action, opts, given,
                   params, port, cand, probes, started, server, gpc, ready,
                   listener, response, launched, httpLog, waits, stops>>

\* CallbackServer.Stop and the error it returns
StopCall ==
    /\ pc = "stop"
    /\ \E graceExpired \in (IF gpc = "serving" THEN BOOLEAN ELSE {FALSE}) :
          LET r == Stop(started, server, gpc, listener, graceExpired)
          IN  /\ started' = r.started
              /\ server' = r.server
              /\ gpc' = r.gpc
              /\ listener' = r.listener
              /\ out' = [done |-> TRUE, err |-> r.err]
    /\ pc' = "idle"
    /\ UNCHANGED <<arg, lateVars, concVars, envToken, cfgFile, client, osBound, stale, action, opts, given,
                   params, port, cand, probes, ready, response, launched, httpLog,
                   waits, stops, ret>>

\* some client sends a request to the receiver's port
Request ==
    /\ \E path \in RequestPaths, method \in RequestMethods, q \in RequestQueries :
          ServeHTTP(path, method, q)
    /\ UNCHANGED lateVars

\* NewCallbackServer(port) for the default port, which is free or taken
ServerInit ==
    /\ envToken = ""
    /\ cfgFile \in {f \in ConfigFiles : f.kind = "absent"}
    /\ client = NewClient(envToken, cfgFile)
    /\ osBound \in {{}, {DefaultCallbackPort}}
    /\ Fresh
    /\ port = DefaultCallbackPort
    /\ arg = NoArg
    /\ out = NoOut

ServerNext ==
    \/ CallStart
    \/ StartCall
    \/ GoListen
    \/ GoServe
    \/ StartReturn
    \/ CallStop
    \/ StopCall
    \/ StaleServe
    \/ Request

ServerSpec == ServerInit /\ [][ServerNext]_vars

\* ------------------------------------------ one cycle, the other ports fixed

\* the ports other processes hold from before the call until after it
PortOccupancies ==
    LET d == DefaultCallbackPort
    IN  { {}, {d}, {d, d + 1}, Window(d),
          d .. (d + SearchWindow - 1),
          d .. (d + SearchWindow),
          (d .. (d + SearchWindow)) \ {d + 50} }

PortInit ==
    /\ envToken = ""
    /\ cfgFile \in {f \in ConfigFiles : f.kind = "absent"}
    /\ client = NewClient(envToken, cfgFile)
    /\ osBound \in PortOccupancies
    /\ Idle
    /\ arg = NoArg
    /\ out = NoOut

PortNext ==
    \/ ExecuteCall
    \/ AuthStep
    \/ ProbeDefault
    \/ FindStep
    \/ StartCall
    \/ GoListen
    \/ GoServe
    \/ StartReturn
    \/ Launch
    \/ Wait
    \/ DeferredStop
    \/ Callback

PortSpec == PortInit /\ [][PortNext]_vars

\* -------------------------------------------- functions applied on their own

\* the first ports FindAvailablePort is started from
StartPorts == {DefaultCallbackPort + 1, DefaultCallbackPort + 2}

\* the ports other processes hold: a run of k ports from the first start
\* port on, a full window with one port left free, one port alone
Occupancies ==
    LET b == DefaultCallbackPort + 1
    IN  {b .. (b + k - 1) : k \in 0 .. (SearchWindow + 1)}
        \cup {(b .. (b + SearchWindow)) \ {h} : h \in {b + 1, b + 50, b + SearchWindow - 1}}
        \cup {{b + 1}, {b + SearchWindow}}

FindInputs == {[fn |-> "FindAvailablePort", startPort |-> p] : p \in StartPorts}

ApplyFindAvailablePort ==
    /\ arg.fn = "FindAvailablePort"
    /\ ~out.done
    /\ out' = [done |-> TRUE, port |-> FindAvailablePort(arg.startPort)]
    /\ UNCHANGED <<arg, lateVars, concVars, envToken, cfgFile, client, osBound, stale, pc, action, opts,
                   given, params, port, cand, probes, started, server, gpc, ready,
                   listener, response, launched, httpLog, waits, stops, ret>>

\* ---- query encoding; a string is the sequence of its characters

\* the longest parameter value tried
MaxValueLen == 2

\* the characters parameter keys and values are made of: a letter, the
\* space, and characters reserved in a query
Alphabet == {"a", " ", "+", "&", "=", "%"}

\* the byte of a character
Byte(c) ==
    CASE c = " " -> 32
      [] c = "%" -> 37
      [] c = "&" -> 38
      [] c = "+" -> 43
      [] c = "=" -> 61
      [] c = "a" -> 97
      [] c = "b" -> 98
      [] c = "t" -> 116

UpperHex == <<"0", "1", "2", "3", "4", "5", "6", "7", "8", "9", "A", "B", "C", "D", "E", "F">>

\* url.shouldEscape in mode encodeQueryComponent: letters, digits and - _ . ~
\* are kept
ShouldEscape(c) ==
    c \notin {"a", "b", "t", "A", "B", "C", "D", "E", "F", "0", "1", "2", "3",
              "4", "5", "6", "7", "8", "9", "-", "_", ".", "~"}

RECURSIVE QueryEscapeSpaces(_)
\* an escape that writes the space as + and every other character as it is
QueryEscapeSpaces(str) ==
    IF str = <<>> THEN <<>>
    ELSE (IF Head(str) = " " THEN <<"+">> ELSE <<Head(str)>>)
         \o QueryEscapeSpaces(Tail(str))

RECURSIVE QueryEscape(_)
\* url.QueryEscape: a space becomes +, an escaped byte %XX
QueryEscape(str) ==
    IF str = <<>> THEN <<>>
    ELSE LET c == Head(str)
             e == IF c = " " THEN <<"+">>
                  ELSE IF ShouldEscape(c)
                       THEN <<"%", UpperHex[(Byte(c) \div 16) + 1], UpperHex[(Byte(c) % 16) + 1]>>
                       ELSE <<c>>
         IN  e \o QueryEscape(Tail(str))

RECURSIVE StrLess(_, _)
\* the order of Go strings: byte by byte, a proper prefix first
StrLess(x, y) ==
    IF y = <<>> THEN FALSE
    ELSE IF x = <<>> THEN TRUE
    ELSE IF Byte(Head(x)) # Byte(Head(y)) THEN Byte(Head(x)) < Byte(Head(y))
    ELSE StrLess(Tail(x), Tail(y))

RECURSIVE SortedKeys(_)
\* the keys in the order Values.Encode writes them
SortedKeys(keys) ==
    IF keys = {} THEN <<>>
    ELSE LET k == CHOOSE x \in keys : \A y \in keys \ {x} : StrLess(x, y)
         IN  <<k>> \o SortedKeys(keys \ {k})

\* url.Values.Add: the value appended to the values of the key
Add(v, key, value) ==
    [k \in (DOMAIN v) \cup {key} |->
        IF k = key THEN (IF key \in DOMAIN v THEN v[key] ELSE <<>>) \o <<value>>
        ELSE v[k]]

\* the orders in which a range over a map with these keys can visit them
Orders(keys) ==
    {o \in [1 .. Cardinality(keys) -> keys] :
        \A i, j \in 1 .. Cardinality(keys) : o[i] = o[j] => i = j}

RECURSIVE RangeAdd(_, _, _)
\* the loop of EncodeParams visiting the keys in the given order
RangeAdd(v, m, order) ==
    IF order = <<>> THEN v
    ELSE RangeAdd(Add(v, Head(order), m[Head(order)]), m, Tail(order))

RECURSIVE EncodeValues(_, _)
\* the pairs key=value of one key, joined by &
EncodeValues(keyEscaped, vs) ==
    IF vs = <<>> THEN <<>>
    ELSE LET pair == keyEscaped \o <<"=">> \o QueryEscape(Head(vs))
         IN  IF Len(vs) = 1 THEN pair
             ELSE pair \o <<"&">> \o EncodeValues(keyEscaped, Tail(vs))

RECURSIVE EncodePairs(_, _)
EncodePairs(v, keys) ==
    IF keys = <<>> THEN <<>>
    ELSE LET k == Head(keys)
             pairs == EncodeValues(QueryEscape(k), v[k])
         IN  IF Len(keys) = 1 THEN pairs
             ELSE pairs \o <<"&">> \o EncodePairs(v, Tail(keys))

\* url.Values.Encode: the keys sorted, each with its values
ValuesEncode(v) == EncodePairs(v, SortedKeys(DOMAIN v))

RECURSIVE ReplaceAll(_, _, _)
\* strings.ReplaceAll for a pattern of one character
ReplaceAll(str, old, new) ==
    IF str = <<>> THEN <<>>
    ELSE (IF Head(str) = old THEN new ELSE <<Head(str)>>)
         \o ReplaceAll(Tail(str), old, new)

\* EncodeParams when its range visits the keys in the given order
EncodeParamsRange(m, order) ==
    LET v == RangeAdd([k \in {} |-> <<>>], m, order)
        encoded == ValuesEncode(v)
    IN  ReplaceAll(encoded, "+", <<"%", "2", "0">>)

\* the encoding as url.Values writes it
EncodeParamsForm(m) ==
    ValuesEncode(RangeAdd([k \in {} |-> <<>>], m, SortedKeys(DOMAIN m)))

\* EncodeParams; v holds one value for each key whatever order the range
\* takes, and Encode sorts the keys
EncodeParams(m) == EncodeParamsRange(m, SortedKeys(DOMAIN m))

\* buildThingsURL: the base, and the query after a ?
buildThingsURL(a, m) ==
    LET baseURL == <<"things:///", a>>
        queryStr == EncodeParams(m)
    IN  IF queryStr = <<>> THEN baseURL ELSE baseURL \o <<"?">> \o queryStr

\* the strings over the alphabet of length up to n
StringsUpTo(n) == UNION {[1 .. k -> Alphabet] : k \in 0 .. n}

KeyT == <<"t">>

KeyAB == <<"a", " ", "b">>

\* no parameter, one parameter with any value, two with short values
ParamMaps ==
    {[k \in {} |-> <<>>]}
    \cup [{KeyT} -> StringsUpTo(MaxValueLen)]
    \cup [{KeyT, KeyAB} -> StringsUpTo(1)]

BuildInputs == {[fn |-> "buildThingsURL", action |-> "add", params |-> m] : m \in ParamMaps}

ApplyBuildThingsURL ==
    /\ arg.fn = "buildThingsURL"
    /\ ~out.done
    /\ out' = [done |-> TRUE, url |-> buildThingsURL(arg.action, arg.params)]
    /\ UNCHANGED <<arg, lateVars, concVars, envToken, cfgFile, client, osBound, stale, pc, action, opts,
                   given, params, port, cand, probes, started, server, gpc, ready,
                   listener, response, launched, httpLog, waits, stops, ret>>

\* ---- NormalizeResponse; keys are names, values sequences of characters

\* callback[key], "" for a key the map does not have
Value(m, k) == IF k \in DOMAIN m THEN m[k] ELSE <<>>

\* strings.Contains(str, c) for one character
Contains(str, c) == \E i \in DOMAIN str : str[i] = c

RECURSIVE Split(_, _)
\* strings.Split(str, sep) for a separator of one character
Split(str, sep) ==
    IF ~Contains(str, sep) THEN <<str>>
    ELSE LET i == CHOOSE j \in DOMAIN str :
                     str[j] = sep /\ \A k \in 1 .. (j - 1) : str[k] # sep
         IN  <<SubSeq(str, 1, i - 1)>> \o Split(SubSeq(str, i + 1, Len(str)), sep)

RECURSIVE SkipSpace(_)
\* the string without its leading white space
SkipSpace(str) ==
    IF str # <<>> /\ Head(str) = " " THEN SkipSpace(Tail(str)) ELSE str

RECURSIVE DropTrailingSpace(_)
DropTrailingSpace(str) ==
    IF str # <<>> /\ str[Len(str)] = " "
    THEN DropTrailingSpace(SubSeq(str, 1, Len(str) - 1))
    ELSE str

\* strings.TrimSpace
TrimSpace(str) == DropTrailingSpace(SkipSpace(str))

\* json.Unmarshal failed
JSONError == [ok |-> FALSE, vals |-> <<>>, rest |-> <<>>]

\* str begins with the literal null
HasNull(str) == Len(str) >= 4 /\ SubSeq(str, 1, 4) = <<"n", "u", "l", "l">>

RECURSIVE ParseElems(_, _)
\* the elements of a JSON array into []string, str standing at an element:
\* a string without escapes, or null, which leaves the element ""
ParseElems(str, acc) ==
    LET quoted == str # <<>> /\ Head(str) = "\"" /\ Contains(Tail(str), "\"")
        close  == CHOOSE j \in 2 .. Len(str) :
                      str[j] = "\"" /\ \A k \in 2 .. (j - 1) : str[k] # "\""
        elem   == IF quoted THEN SubSeq(str, 2, close - 1) ELSE <<>>
        after  == IF quoted THEN SubSeq(str, close + 1, Len(str))
                  ELSE SubSeq(str, 5, Len(str))
        next   == SkipSpace(after)
    IN  IF ~quoted /\ ~HasNull(str) THEN JSONError
        ELSE IF next = <<>> THEN JSONError
        ELSE IF Head(next) = "," THEN ParseElems(SkipSpace(Tail(next)), Append(acc, elem))
        ELSE IF Head(next) = "]" THEN [ok |-> TRUE, vals |-> Append(acc, elem), rest |-> Tail(next)]
        ELSE JSONError

\* a text that is taken as one identifier, whatever it holds
UnmarshalStringsOrRaw(str) == [ok |-> TRUE, vals |-> <<str>>, rest |-> <<>>]

\* json.Unmarshal([]byte(str), &parsed) for parsed []string: null, or an array
\* of strings and nulls, white space around the tokens; anything else fails
UnmarshalStrings(str) ==
    LET t == SkipSpace(str)
    IN  IF HasNull(t)
        THEN IF SkipSpace(SubSeq(t, 5, Len(t))) = <<>>
             THEN [ok |-> TRUE, vals |-> <<>>, rest |-> <<>>]
             ELSE JSONError
        ELSE IF t = <<>> \/ Head(t) # "[" THEN JSONError
        ELSE LET b == SkipSpace(Tail(t))
                 r == IF b # <<>> /\ Head(b) = "]"
                      THEN [ok |-> TRUE, vals |-> <<>>, rest |-> Tail(b)]
                      ELSE ParseElems(b, <<>>)
             IN  IF r.ok /\ SkipSpace(r.rest) = <<>> THEN r ELSE JSONError

\* a cleaned map without the fields the result holds elsewhere
CleanedUninterpreted(callback) ==
    [k \in DOMAIN callback \ {"result", "x-things-id", "x-things-ids",
                              "x-things-scheme-version", "x-things-client-version"}
         |-> callback[k]]

\* a cleaned map that keeps every key
CleanedAll(callback) == callback

\* lines 131-138: the reply without its result key
Cleaned(callback) == [k \in DOMAIN callback \ {"result"} |-> callback[k]]

\* every single-identifier field taken as a list
IsListAlways(id) == TRUE

\* line 148: the single-identifier field holds a list
IsList(id) == Contains(id, ",")

\* the trimmed parts, the empty ones too
TrimmedPartsAll(parts) == [i \in DOMAIN parts |-> TrimSpace(parts[i])]

RECURSIVE TrimmedParts(_)
\* lines 149-154: the trimmed parts that are not empty
TrimmedParts(parts) ==
    IF parts = <<>> THEN <<>>
    ELSE LET trimmed == TrimSpace(Head(parts))
         IN  (IF trimmed # <<>> THEN <<trimmed>> ELSE <<>>) \o TrimmedParts(Tail(parts))

\* ActionResult{Action: action}
NewActionResult(a) ==
    [Action |-> a, ThingsID |-> <<>>, ThingsIDs |-> <<>>,
     ThingsSchemeVersion |-> <<>>, ThingsClientVersion |-> <<>>, Callback |-> EmptyMap]

\* NormalizeResponse with the ID list of x-things-ids replaced by the parts
\* of x-things-id
NormalizeResponseSplitOnly(a, callback) ==
    IF DOMAIN callback = {} THEN NewActionResult(a)
    ELSE LET ids    == Value(callback, "x-things-ids")
             parsed == UnmarshalStrings(ids)
             fromJSON == IF ids # <<>> /\ parsed.ok THEN parsed.vals ELSE <<>>
             id     == Value(callback, "x-things-id")
         IN  [Action |-> a,
              ThingsID |-> IF id # <<>> /\ ~IsList(id) THEN id ELSE <<>>,
              ThingsIDs |-> IF id # <<>> /\ IsList(id)
                            THEN TrimmedParts(Split(id, ","))
                            ELSE fromJSON,
              ThingsSchemeVersion |-> Value(callback, "x-things-scheme-version"),
              ThingsClientVersion |-> Value(callback, "x-things-client-version"),
              Callback |-> Cleaned(callback)]

NormalizeResponse(a, callback) ==
    IF DOMAIN callback = {} THEN NewActionResult(a)
    ELSE LET ids    == Value(callback, "x-things-ids")
             parsed == UnmarshalStrings(ids)
             fromJSON == IF ids # <<>> /\ parsed.ok THEN parsed.vals ELSE <<>>
             id     == Value(callback, "x-things-id")
         IN  [Action |-> a,
              ThingsID |-> IF id # <<>> /\ ~IsList(id) THEN id ELSE <<>>,
              ThingsIDs |-> IF id # <<>> /\ IsList(id)
                            THEN fromJSON \o TrimmedParts(Split(id, ","))
                            ELSE fromJSON,
              ThingsSchemeVersion |-> Value(callback, "x-things-scheme-version"),
              ThingsClientVersion |-> Value(callback, "x-things-client-version"),
              Callback |-> Cleaned(callback)]

\* the longest generated single-identifier value
MaxIdLen == 3

ABC123 == <<"A", "B", "C", "-", "1", "2", "3">>

Success == <<"s", "u", "c", "c", "e", "s", "s">>

\* values of x-things-id: an identifier letter, the separator, a space
IdStrings == UNION {[1 .. k -> {"A", ",", " "}] : k \in 0 .. MaxIdLen}

\* values of x-things-ids: arrays of strings, null, and texts Unmarshal rejects
JSONTexts ==
    { <<"[", "\"", "A", "\"", ",", "\"", "B", "\"", "]">>,
      <<" ", "[", " ", "\"", "A", "\"", " ", ",", " ", "\"", "B", ",", "C", "\"", " ", "]", " ">>,
      <<"[", "]">>,
      <<"n", "u", "l", "l">>,
      <<"[", "n", "u", "l", "l", ",", "\"", "A", "\"", "]">>,
      <<"[", "\"", "A", "\"">>,
      <<"[", "\"", "A", "\"", ",", "]">>,
      <<"[", "\"", "A", "\"", "]", "x">>,
      <<"[", "[", "\"", "A", "\"", "]", "]">>,
      <<"[", "1", "]">>,
      <<"\"", "A", "\"">>,
      <<"A", ",", "B">> }

\* the replies NormalizeResponse is applied to
Replies ==
    { [k \in {} |-> <<>>],
      ("result" :> Success),
      ("result" :> Success) @@ ("identifier" :> ABC123),
      ("result" :> Success) @@ ("x-things-id" :> ABC123),
      ("result" :> Success) @@ ("x-things-id" :> <<"A", ",", "B", ",", "C">>),
      ("result" :> Success) @@ ("x-things-id" :> ABC123) @@ ("title" :> <<"a", " ", "b">>)
          @@ ("x-things-scheme-version" :> <<"2">>),
      ("x-things-id" :> ABC123) @@ ("x-things-scheme-version" :> <<"2">>)
          @@ ("x-things-client-version" :> <<"3", "1">>) }
    \cup {("result" :> r) @@ ("x-things-id" :> v) : r \in {Success, <<>>}, v \in IdStrings}
    \cup {("result" :> Success) @@ ("x-things-ids" :> j) @@ ("x-things-id" :> v) :
              j \in JSONTexts, v \in {<<>>, <<"A">>, <<"A", ",", "B">>}}
    \cup {("x-things-ids" :> j) @@ ("x-things-id" :> v) : j \in JSONTexts, v \in IdStrings}

\* the cleaning done in the caller's map: the result key deleted from it
CallbackAfterDelete(callback) == [k \in DOMAIN callback \ {"result"} |-> callback[k]]

\* the caller's map when NormalizeResponse has returned: lines 125-168 read
\* callback and write only cleaned, a map of their own making, and result
CallbackAfter(callback) == callback

NormalizeInputs ==
    {[fn |-> "NormalizeResponse", action |-> a, callback |-> c] :
         a \in {"create", "add"}, c \in Replies}

ApplyNormalizeResponse ==
    /\ arg.fn = "NormalizeResponse"
    /\ ~out.done
    /\ out' = [done |-> TRUE,
               result |-> NormalizeResponse(arg.action, arg.callback),
               callback |-> CallbackAfter(arg.callback)]
    /\ UNCHANGED <<arg, lateVars, concVars, envToken, cfgFile, client, osBound, stale, pc, action, opts,
                   given, params, port, cand, probes, started, server, gpc, ready,
                   listener, response, launched, httpLog, waits, stops, ret>>

\* ---- bear's executeURL after the URL was opened; keys and values are names

\* the error executeURL makes of a reply's x-error field
BearError(errMsg) ==
    [kind |-> "bear", Code |-> "", Message |-> errMsg, Callback |-> EmptyMap]

\* lines 94-105 of bear's executeURL for an outcome w of WaitForResponse
executeURL(w) ==
    IF w.err # NoErr THEN Result(TRUE, EmptyMap, w.err)
    ELSE IF "x-error" \in DOMAIN w.response
         THEN Result(FALSE, w.response, BearError(w.response["x-error"]))
         ELSE Result(FALSE, w.response, NoErr)

\* what the receiver's handler made of Bear's request to the one callback
\* address: a success reply, error replies with the x-callback-url error code
\* and message, a reply naming x-error itself, an empty reply
BearReplies ==
    { ("identifier" :> "N1") @@ ("title" :> "Groceries"),
      ("errorCode" :> "1") @@ ("errorMessage" :> "The note could not be found"),
      ("errorCode" :> "2") @@ ("errorMessage" :> ""),
      ("errorMessage" :> "The note could not be found"),
      ("x-error" :> "failed"),
      ("x-error" :> "") @@ ("errorCode" :> "1") @@ ("errorMessage" :> "x"),
      EmptyMap }

\* the channel when executeURL waits: a reply buffered or nothing
BearInputs ==
    {[fn |-> "executeURL", slot |-> <<r>>] : r \in BearReplies}
    \cup {[fn |-> "executeURL", slot |-> <<>>]}

ApplyExecuteURL ==
    /\ arg.fn = "executeURL"
    /\ ~out.done
    /\ \E w \in WaitForResponse(arg.slot) :
           out' = [done |-> TRUE, wait |-> w, result |-> executeURL(w)]
    /\ UNCHANGED <<arg, lateVars, concVars, envToken, cfgFile, client, osBound, stale, pc, action, opts,
                   given, params, port, cand, probes, started, server, gpc, ready,
                   listener, response, launched, httpLog, waits, stops, ret>>

\* ---- NewClient on the config files a user can have; the timeout in seconds

\* a port and a timeout a user configures
OtherPort == 9000

OtherTimeoutSeconds == 30

\* config files that parse: any subset of the fields, the timeout given as
\* 30 or as 0
ParsedConfigFiles ==
    {[kind |-> "ok", fields |-> fs,
      auth_token |-> "tokC", callback_port |-> OtherPort,
      callback_timeout_seconds |-> t] :
         fs \in SUBSET ConfigFields, t \in {OtherTimeoutSeconds, 0}}

NewClientInputs ==
    {[fn |-> "NewClient", env |-> e, file |-> f] :
         e \in EnvTokens, f \in ConfigFiles \cup ParsedConfigFiles}

ApplyNewClient ==
    /\ arg.fn = "NewClient"
    /\ ~out.done
    /\ out' = [done |-> TRUE, client |-> NewClient(arg.env, arg.file)]
    /\ UNCHANGED <<arg, lateVars, concVars, envToken, cfgFile, client, osBound, stale, pc,
                   action, opts, given, params, port, cand, probes, started, server, gpc,
                   ready, listener, response, launched, httpLog, waits, stops, ret>>

\* ---- the query as the receiver of a request reads it: r.URL.Query()

\* the hexadecimal digits url.unescape accepts
IsHex(c) == c \in {"0", "1", "2", "3", "4", "5", "6", "7", "8", "9",
                   "a", "b", "c", "d", "e", "f", "A", "B", "C", "D", "E", "F"}

\* the value of a hexadecimal digit
Unhex(c) ==
    CASE c \in {"a", "A"} -> 10
      [] c \in {"b", "B"} -> 11
      [] c \in {"c", "C"} -> 12
      [] c \in {"d", "D"} -> 13
      [] c \in {"e", "E"} -> 14
      [] c \in {"f", "F"} -> 15
      [] OTHER -> (CHOOSE n \in 0 .. 9 : UpperHex[n + 1] = c)

\* the character of a byte, "?" for a byte outside the alphabet
FromByte(n) ==
    IF \E c \in Alphabet \cup {"b", "t"} : Byte(c) = n
    THEN CHOOSE c \in Alphabet \cup {"b", "t"} : Byte(c) = n
    ELSE "?"

RECURSIVE Unescape(_, _)
\* url.unescape: %XX is the byte XX, and in a query component + is the
\* space; a % without two hexadecimal digits is an error
Unescape(str, plus) ==
    IF str = <<>> THEN [err |-> FALSE, str |-> <<>>]
    ELSE IF Head(str) = "%"
    THEN IF Len(str) < 3 \/ ~IsHex(str[2]) \/ ~IsHex(str[3])
         THEN [err |-> TRUE, str |-> <<>>]
         ELSE LET r == Unescape(SubSeq(str, 4, Len(str)), plus)
              IN  [err |-> r.err,
                   str |-> IF r.err THEN <<>>
                           ELSE <<FromByte(16 * Unhex(str[2]) + Unhex(str[3]))>> \o r.str]
    ELSE LET r == Unescape(Tail(str), plus)
             c == IF plus /\ Head(str) = "+" THEN " " ELSE Head(str)
         IN  [err |-> r.err, str |-> IF r.err THEN <<>> ELSE <<c>> \o r.str]

\* strings.Cut(str, sep) for a separator of one character
Cut(str, sep) ==
    IF Contains(str, sep)
    THEN LET i == CHOOSE j \in DOMAIN str :
                      str[j] = sep /\ \A k \in 1 .. (j - 1) : str[k] # sep
         IN  [before |-> SubSeq(str, 1, i - 1), after |-> SubSeq(str, i + 1, Len(str))]
    ELSE [before |-> str, after |-> <<>>]

RECURSIVE ParseQuery(_, _, _)
\* url.ParseQuery: the pairs between the &, each cut at its first =, key and
\* value unescaped; an empty pair and a pair that does not unescape are
\* left out
ParseQuery(v, query, plus) ==
    IF query = <<>> THEN v
    ELSE LET c == Cut(query, "&")
             kv == Cut(c.before, "=")
             key == Unescape(kv.before, plus)
             value == Unescape(kv.after, plus)
         IN  IF c.before = <<>> \/ key.err \/ value.err
             THEN ParseQuery(v, c.after, plus)
             ELSE ParseQuery(Add(v, key.str, value.str), c.after, plus)

\* the params of the callback handler for a raw query: the first value of
\* each key
QueryParams(query, plus) ==
    LET v == ParseQuery([k \in {} |-> <<>>], query, plus)
    IN  [k \in DOMAIN v |-> v[k][1]]

\* ---- ParseTags and JoinTags; a tag is a sequence of characters

\* the longest generated tag
MaxTagLen == 3

\* the longest generated list of tags
MaxTags == 2

RECURSIVE Join(_, _)
\* strings.Join(elems, sep) for a separator of one character
Join(elems, sep) ==
    IF elems = <<>> THEN <<>>
    ELSE IF Len(elems) = 1 THEN Head(elems)
    ELSE Head(elems) \o <<sep>> \o Join(Tail(elems), sep)

\* tags written one after the other with a space between them
JoinTagsSpaces(tags) == Join(tags, " ")

JoinTags(tags) == Join(tags, ",")

RECURSIVE ParseTagsLoop(_, _)
\* the loop of ParseTags: each part trimmed, appended when it is not empty
ParseTagsLoop(result, tags) ==
    IF tags = <<>> THEN result
    ELSE LET trimmed == TrimSpace(Head(tags))
         IN  ParseTagsLoop(IF trimmed # <<>> THEN result \o <<trimmed>> ELSE result,
                           Tail(tags))

\* ParseTags: an empty slice for the empty string; else the slice of the
\* loop, which is nil when no part was appended
ParseTags(tagString) ==
    IF tagString = <<>> THEN [isNil |-> FALSE, tags |-> <<>>]
    ELSE LET result == ParseTagsLoop(<<>>, Split(tagString, ","))
         IN  [isNil |-> result = <<>>, tags |-> result]

\* tags over a letter, the space and the separator
TagStrings == UNION {[1 .. k -> {"a", " ", ","}] : k \in 0 .. MaxTagLen}

TagInputs ==
    {[fn |-> "ParseTags", tags |-> t] :
         t \in UNION {[1 .. n -> TagStrings] : n \in 0 .. MaxTags}}

\* JoinTags of a list, and ParseTags of what it gave
ApplyTags ==
    /\ arg.fn = "ParseTags"
    /\ ~out.done
    /\ LET joined == JoinTags(arg.tags)
       IN  out' = [done |-> TRUE, joined |-> joined, parsed |-> ParseTags(joined)]
    /\ UNCHANGED <<arg, lateVars, concVars, envToken, cfgFile, client, osBound, stale, pc,
                   action, opts, given, params, port, cand, probes, started, server, gpc,
                   ready, listener, response, launched, httpLog, waits, stops, ret>>

FnInit ==
    /\ envToken = ""
    /\ cfgFile \in {f \in ConfigFiles : f.kind = "absent"}
    /\ client = NewClient(envToken, cfgFile)
    /\ Idle
    /\ \/ arg \in FindInputs /\ osBound \in Occupancies
       \/ arg \in BuildInputs /\ osBound = {}
       \/ arg \in NormalizeInputs /\ osBound = {}
       \/ arg \in BearInputs /\ osBound = {}
       \/ arg \in NewClientInputs /\ osBound = {}
       \/ arg \in TagInputs /\ osBound = {}
    /\ out = NoOut

FnNext ==
    \/ ApplyFindAvailablePort
    \/ ApplyBuildThingsURL
    \/ ApplyNormalizeResponse
    \/ ApplyExecuteURL
    \/ ApplyNewClient
    \/ ApplyTags

FnSpec == FnInit /\ [][FnNext]_vars

\* ------------------------------------- two calls of Execute on one Client
\* The handlers of the MCP server share one Client and run in goroutines of
\* their own. Each call has its own frame; Start's net.Listen and the port
\* probes are single steps, and Stop releases the listener.

\* every port some listener holds while the calls run
ConcBound ==
    osBound \cup {cycles[i].port : i \in {j \in Calls : cycles[j].bound}}

\* lines 70-81: the caller passes no parameter and no option
CExecute(i) ==
    /\ cycles[i].pc = "idle"
    /\ LET r == AuthResolve(EmptyMap, NoOpts, client.AuthToken)
       IN  cycles' = [cycles EXCEPT ![i].pc = "port", ![i].params = r.params]
    /\ UNCHANGED inflight

\* lines 83-93: the configured port when it is free, else the search; the
\* callback parameters name the port chosen
CChoosePort(i) ==
    /\ cycles[i].pc = "port"
    /\ LET p == IF client.CallbackPort \notin ConcBound
                THEN client.CallbackPort
                ELSE FindAvailablePortIn(ConcBound, client.CallbackPort + 1)
       IN  IF p = NoPort
           THEN cycles' = [cycles EXCEPT ![i].pc = "done",
                                         ![i].ret = Result(TRUE, EmptyMap, ErrorOf("port"))]
           ELSE cycles' = [cycles EXCEPT ![i].pc = "start",
                                         ![i].port = p,
                                         ![i].params = InjectCallbacks(cycles[i].params, p)]
    /\ UNCHANGED inflight

\* lines 95-99 and Start: net.Listen takes the port when no listener holds
\* it; Start returns nil in both cases
CStart(i) ==
    /\ cycles[i].pc = "start"
    /\ cycles' = [cycles EXCEPT ![i].pc = "launch",
                                ![i].bound = cycles[i].port \notin ConcBound]
    /\ UNCHANGED inflight

\* lines 101-105: open is given the URL, or fails
CLaunch(i) ==
    /\ cycles[i].pc = "launch"
    /\ \/ /\ cycles' = [cycles EXCEPT ![i].pc = "wait"]
          /\ inflight' = inflight \cup {[origin |-> i, port |-> cycles[i].port]}
       \/ /\ cycles' = [cycles EXCEPT ![i].pc = "stop",
                                      ![i].ret = Result(TRUE, EmptyMap, ErrorOf("launch"))]
          /\ UNCHANGED inflight

\* lines 107-121: WaitForResponse on the call's own receiver, then the
\* classification of the reply
CWait(i) ==
    /\ cycles[i].pc = "wait"
    /\ \E w \in WaitForResponse(cycles[i].slot) :
           cycles' = [cycles EXCEPT
                         ![i].pc = "stop",
                         ![i].slot = w.slot,
                         ![i].from = IF w.isNil THEN 0 ELSE w.response.origin,
                         ![i].ret = IF w.isNil THEN Result(TRUE, EmptyMap, w.err)
                                    ELSE Classify(w.response.params)]
    /\ UNCHANGED inflight

\* line 99, the deferred Stop, and the return
CStop(i) ==
    /\ cycles[i].pc = "stop"
    /\ cycles' = [cycles EXCEPT ![i].pc = "done", ![i].bound = FALSE]
    /\ UNCHANGED inflight

\* the application answers a request it was given: a GET to the callback URL
\* of that request, handled by the receiver whose listener holds the port
CCallback ==
    \E f \in inflight, q \in Queries :
        /\ inflight' = inflight \ {f}
        /\ LET at == {j \in Calls : cycles[j].bound /\ cycles[j].port = f.port}
           IN  IF at = {} THEN UNCHANGED cycles
               ELSE LET j == CHOOSE k \in at : TRUE
                        h == HandlerSelect(cycles[j].slot,
                                           [origin |-> f.origin, params |-> HandlerParams(q)])
                    IN  cycles' = [cycles EXCEPT ![j].slot = h.slot]

ConcFrame ==
    UNCHANGED <<fnVars, lateVars, envToken, cfgFile, client, osBound, stale, pc, action,
                opts, given, params, port, cand, probes, started, server, gpc, ready,
                listener, response, launched, httpLog, waits, stops, ret>>

ExecuteStep == ConcFrame /\ \E i \in Calls : CExecute(i)

ChoosePortStep == ConcFrame /\ \E i \in Calls : CChoosePort(i)

StartStep == ConcFrame /\ \E i \in Calls : CStart(i)

LaunchStep == ConcFrame /\ \E i \in Calls : CLaunch(i)

WaitStep == ConcFrame /\ \E i \in Calls : CWait(i)

StopStep == ConcFrame /\ \E i \in Calls : CStop(i)

CallbackStep == ConcFrame /\ CCallback

ConcInit ==
    /\ envToken = ""
    /\ cfgFile \in {f \in ConfigFiles : f.kind = "absent"}
    /\ client = NewClient(envToken, cfgFile)
    /\ osBound \in {{}, {DefaultCallbackPort}}
    /\ Idle
    /\ arg = NoArg
    /\ out = NoOut

ConcNext ==
    \/ ExecuteStep
    \/ ChoosePortStep
    \/ StartStep
    \/ LaunchStep
    \/ WaitStep
    \/ StopStep
    \/ CallbackStep

ConcSpec == ConcInit /\ [][ConcNext]_vars

\* ------------------------------------------------------------------ claims

\* the parameters of the first callback the handler put into the channel
FirstAccepted ==
    LET ok == {i \in DOMAIN httpLog : httpLog[i].status = StatusOK}
    IN  httpLog[CHOOSE i \in ok : \A j \in ok : i <= j].params

\* the credential the priority order names: the explicit parameter, else the
\* environment variable, else the token of the persisted configuration
ExpectedCredential ==
    IF Get(given, "auth-token") # "" THEN Get(given, "auth-token")
    ELSE IF envToken # "" THEN envToken
    ELSE IF cfgFile.kind = "ok" THEN cfgFile.auth_token
    ELSE ""

\* C1: when Execute has returned from a cycle that started a receiver, Stop
\* has been called and this process no longer holds the callback port.
C1_TeardownOnEveryExit ==
    (pc = "done" /\ server.set) => (stops >= 1 /\ listener = NoPort)

\* C2: a cycle that timed out returns a nil reply with the timeout error, and
\* after it returned the reserved port is free.
C2_TimeoutThenPortFree ==
    (pc = "done" /\ ret.err.kind = "timeout") =>
        (ret.isNil /\ ret.err = ErrorOf("timeout") /\ listener = NoPort)

\* C3: every cycle that was started eventually returns, whatever callbacks
\* arrive or fail to arrive.
C3_EveryCycleReturns == (pc = "auth") ~> (pc = "done")

\* a cycle returned the timeout error although no callback ever arrived
C3_Witness ==
    pc = "done" /\ ret.err.kind = "timeout" /\ httpLog = <<>> /\ waits = 1

\* C4: a callback that finds the slot occupied is answered 500 and leaves the
\* slot as it was, and the reply WaitForResponse returns is the one of the
\* callback that was put into the slot first.
C4_FirstReplyWins ==
    [][ /\ (Len(httpLog') = Len(httpLog) + 1 /\ response # <<>>) =>
              /\ httpLog'[Len(httpLog')].status = StatusInternalServerError
              /\ response' = response
        /\ (waits' = waits + 1 /\ ~ret'.isNil) =>
              ret'.response = FirstAccepted ]_vars

\* two different callbacks arrived, the second was answered 500 and the cycle
\* returned the first
C4_Witness ==
    /\ Len(httpLog) = 2
    /\ httpLog[1].status = StatusOK
    /\ httpLog[2].status = StatusInternalServerError
    /\ httpLog[1].params # httpLog[2].params
    /\ ret.returned /\ ~ret.isNil /\ ret.response = httpLog[1].params

\* C5: a receiver instance answers 200 to at most one callback in its
\* lifetime.
C5_AtMostOneAccepted ==
    Cardinality({i \in DOMAIN httpLog : httpLog[i].status = StatusOK}) <= 1

\* C6: when Start has returned without error the listener is bound to the
\* receiver's port.
C6_StartOkMeansBound ==
    (pc = "launch" /\ started) => listener = port

\* C7: while a launched URL is awaited, the receiver is listening on the port
\* named in the injected callback URLs.
C7_LaunchOnlyWhenListening ==
    (pc = "wait" /\ launched # <<>>) => listener = port

\* C8: with RequiresAuth and no credential, Execute returns the
\* authentication error and has probed no port, started no receiver and
\* launched nothing.
C8_AuthMissingFailsFirst ==
    (/\ opts.RequiresAuth
     /\ Get(given, "auth-token") = ""
     /\ client.AuthToken = ""
     /\ pc \notin {"idle", "auth"}) =>
        /\ pc = "done"
        /\ ret.isNil /\ ret.err = ErrorOf("auth")
        /\ probes = 0 /\ port = NoPort
        /\ ~server.set /\ gpc = "none" /\ listener = NoPort
        /\ launched = <<>>

\* a call with RequiresAuth and no credential anywhere has returned
C8_Witness ==
    /\ pc = "done"
    /\ opts.RequiresAuth
    /\ Get(given, "auth-token") = ""
    /\ envToken = "" /\ client.AuthToken = ""
    /\ ret.err.kind = "auth"

\* C9: the auth-token of a launched URL is the explicit parameter when that
\* is non-empty, else the environment variable's value, else the persisted
\* configuration's token.
C9_CredentialPriority ==
    \A i \in DOMAIN launched :
        LET tok == Get(launched[i].params, "auth-token")
        IN  /\ tok # "" => tok = ExpectedCredential
            /\ (opts.RequiresAuth \/ opts.UseAuthIfAvailable) => tok = ExpectedCredential

\* a URL was launched with the environment's token although the persisted
\* configuration holds another one
C9_Witness ==
    /\ launched # <<>>
    /\ Get(given, "auth-token") = ""
    /\ envToken = "tokE"
    /\ cfgFile.kind = "ok" /\ cfgFile.auth_token = "tokC"
    /\ Get(launched[1].params, "auth-token") = "tokE"

\* C10: a cycle whose reply has result=error and no error code returns a
\* CallbackError with the code THINGS_ERROR.
C10_FallbackCode ==
    (ret.err.kind = "callback" /\ Get(ret.response, "errorCode") = "") =>
        ret.err.Code = "THINGS_ERROR"

\* C11: the CallbackError of a reply with result=error has the reply's
\* errorMessage as Message when that is non-empty and the fallback sentence
\* otherwise, and carries the full reply received.
C11_ErrorMessageAndRawReply ==
    (ret.returned /\ ~ret.isNil /\ Get(ret.response, "result") = "error") =>
        /\ ret.err.kind = "callback"
        /\ ret.err.Message = IF Get(ret.response, "errorMessage") # ""
                             THEN Get(ret.response, "errorMessage")
                             ELSE "Things returned an error"
        /\ ret.err.Callback = ret.response
        /\ ret.response = FirstAccepted

\* an error reply without a message was returned with the fallback sentence
C11_Witness ==
    /\ pc = "done"
    /\ ret.err.kind = "callback"
    /\ "errorMessage" \notin DOMAIN ret.response
    /\ ret.err.Message = "Things returned an error"
    /\ ret.err.Callback = ret.response

\* C12: Execute returns a CallbackError exactly when a reply was received
\* whose result field signals an error; a timeout, a missing credential, no
\* free port and a failed launch each return their own error without a reply.
C12_CallbackErrorIffErrorReply ==
    ret.returned =>
        /\ ret.err.kind = "callback" <=>
              (waits = 1 /\ ~ret.isNil /\ Get(ret.response, "result") = "error")
        /\ ~ret.isNil => (waits = 1 /\ ret.response = FirstAccepted)
        /\ ret.isNil => ret.err.kind \in {"auth", "noport", "start", "launch", "timeout"}
        /\ ret.err.kind = "timeout" <=> (waits = 1 /\ ret.isNil)
        /\ ret.err.kind = "launch" <=>
              (launched # <<>> /\ ~launched[Len(launched)].ok)
        /\ ret.err.kind \in {"auth", "noport", "start"} => (~started /\ launched = <<>>)

\* a cycle returned a CallbackError for an error reply
C12_Witness ==
    /\ pc = "done"
    /\ ret.err.kind = "callback"
    /\ Get(ret.response, "result") = "error"
    /\ Get(ret.response, "errorCode") = "E404"

\* C13: once the timeout error is the outcome of a cycle it stays the outcome
\* until Execute has returned, whatever callbacks arrive, and WaitForResponse
\* is not called again.
C13_TimeoutIsFinal ==
    [][ (ret.returned /\ ret.err.kind = "timeout" /\ pc' # "idle") =>
            (ret' = ret /\ waits' = waits) ]_vars

\* the cycle returned the timeout error while an accepted reply sits in the
\* channel, undelivered
C13_Witness ==
    /\ pc = "done"
    /\ ret.err.kind = "timeout" /\ ret.isNil
    /\ response # <<>>
    /\ \E i \in DOMAIN httpLog : httpLog[i].status = StatusOK

\* C14: the reply Execute returns answers the URL its own cycle launched,
\* never a URL launched by an earlier cycle on the same callback port
C14_ReplyIsOwn ==
    (ret.returned /\ ~ret.isNil) =>
        LET ok == {i \in DOMAIN httpLog : httpLog[i].status = StatusOK}
        IN  origins[CHOOSE i \in ok : \A j \in ok : i <= j] = "own"

\* C15: FindAvailablePort(p) returns a port of p .. p+99 or -1; a returned
\* port is free and every port of the window before it is taken; it returns
\* -1 exactly when all 100 ports of the window are taken
C15_LowestFreeOrSentinel ==
    (arg.fn = "FindAvailablePort" /\ out.done) =>
        LET p == arg.startPort
            q == out.port
            window == p .. (p + SearchWindow - 1)
        IN  /\ q = NoPort \/ q \in window
            /\ q # NoPort =>
                  /\ IsPortAvailable(q)
                  /\ \A r \in p .. (q - 1) : ~IsPortAvailable(r)
            /\ q = NoPort <=> \A r \in window : ~IsPortAvailable(r)

C15_Witness ==
    /\ arg.fn = "FindAvailablePort" /\ out.done
    /\ out.port = arg.startPort + SearchWindow - 1
    /\ \A r \in arg.startPort .. (out.port - 1) : ~IsPortAvailable(r)

QueryOf(url) ==
    IF \E i \in DOMAIN url : url[i] = "?"
    THEN SubSeq(url, (CHOOSE i \in DOMAIN url : url[i] = "?") + 1, Len(url))
    ELSE <<>>

\* how often character c occurs in the keys and values of map m
Occurrences(m, c) ==
    LET in(str) == Cardinality({i \in DOMAIN str : str[i] = c})
        RECURSIVE sum(_)
        sum(keys) == IF keys = {} THEN 0
                     ELSE LET k == CHOOSE x \in keys : TRUE
                          IN  in(k) + in(m[k]) + sum(keys \ {k})
    IN  sum(DOMAIN m)

\* how often the three characters of code follow each other in str
Codes(str, code) ==
    Cardinality({i \in 1 .. (Len(str) - 2) : SubSeq(str, i, i + 2) = code})

\* C17: the query of a built URL has no + in it: each space of a key or value
\* is written %20, each reserved character (a + too) is written %XX, and only
\* the = and & that join the pairs stand for themselves
C17_NoPlusInQuery ==
    (arg.fn = "buildThingsURL" /\ out.done) =>
        LET q == QueryOf(out.url)
            m == arg.params
            n == Cardinality(DOMAIN m)
        IN  /\ \A i \in DOMAIN q : q[i] # "+" /\ q[i] # " "
            /\ \A i \in DOMAIN q : ShouldEscape(q[i]) => q[i] \in {"%", "=", "&"}
            /\ Cardinality({i \in DOMAIN q : q[i] = "="}) = n
            /\ Cardinality({i \in DOMAIN q : q[i] = "&"}) = IF n = 0 THEN 0 ELSE n - 1
            /\ Codes(q, <<"%", "2", "0">>) = Occurrences(m, " ")
            /\ Codes(q, <<"%", "2", "B">>) = Occurrences(m, "+")
            /\ Codes(q, <<"%", "2", "6">>) = Occurrences(m, "&")
            /\ Codes(q, <<"%", "3", "D">>) = Occurrences(m, "=")
            /\ Codes(q, <<"%", "2", "5">>) = Occurrences(m, "%")

C17_Witness ==
    /\ arg.fn = "buildThingsURL" /\ out.done
    /\ KeyAB \in DOMAIN arg.params
    /\ arg.params[KeyT] = <<"+">>
    /\ arg.params[KeyAB] = <<" ">>
    /\ QueryOf(out.url) = <<"a", "%", "2", "0", "b", "=", "%", "2", "0", "&",
                            "t", "=", "%", "2", "B">>

\* C18: every URL a cycle launches carries x-success and x-error pointing at
\* http://localhost:<port>/callback, <port> being the port the cycle's
\* receiver was started on, whatever the caller passed under those names
C18_CallbackURLsOnReceiverPort ==
    \A i \in DOMAIN launched :
        LET m == launched[i].params
        IN  /\ port # NoPort /\ server.set
            /\ listener # NoPort => listener = port
            /\ "x-success" \in DOMAIN m /\ "x-error" \in DOMAIN m
            /\ m["x-success"] = "http://localhost:" \o ToString(port) \o "/callback?result=success"
            /\ m["x-error"] = "http://localhost:" \o ToString(port) \o "/callback?result=error"

C18_Witness ==
    /\ launched # <<>>
    /\ port = DefaultCallbackPort + 1 /\ listener = port
    /\ Get(given, "x-success") = "http://localhost:1/mine"
    /\ launched[1].params["x-success"] = "http://localhost:8766/callback?result=success"
    /\ launched[1].params["x-error"] = "http://localhost:8766/callback?result=error"

\* C19 as stated: for action "create" and the callback
\* result=success&identifier=ABC-123 the normalized result has Action
\* "create" and the primary identifier ABC-123
C19_IdentifierIsPrimaryID ==
    (/\ arg.fn = "NormalizeResponse" /\ out.done
     /\ arg.action = "create"
     /\ arg.callback = ("result" :> Success) @@ ("identifier" :> ABC123)) =>
        /\ out.result.Action = "create"
        /\ out.result.ThingsID = ABC123

\* C19 amended: the primary identifier is read from x-things-id; for the
\* callback result=success&x-things-id=ABC-123 the result has Action "create"
\* and ThingsID ABC-123, for result=success&identifier=ABC-123 it has Action
\* "create", no ThingsID, and identifier=ABC-123 among the pass-through fields
C19_ThingsIdIsPrimaryID ==
    (arg.fn = "NormalizeResponse" /\ out.done /\ arg.action = "create") =>
        /\ arg.callback = ("result" :> Success) @@ ("x-things-id" :> ABC123) =>
              /\ out.result.Action = "create"
              /\ out.result.ThingsID = ABC123
              /\ out.result.ThingsIDs = <<>>
        /\ arg.callback = ("result" :> Success) @@ ("identifier" :> ABC123) =>
              /\ out.result.Action = "create"
              /\ out.result.ThingsID = <<>>
              /\ out.result.ThingsIDs = <<>>
              /\ out.result.Callback = ("identifier" :> ABC123)

C19_Witness ==
    /\ arg.fn = "NormalizeResponse" /\ out.done /\ arg.action = "create"
    /\ arg.callback = ("result" :> Success) @@ ("x-things-id" :> ABC123)
    /\ out.result.ThingsID = ABC123

\* C20: whatever the reply, the pass-through fields of NormalizeResponse's
\* result have no key "result"; they are the reply's other fields
C20_NoResultKeyPassedThrough ==
    (arg.fn = "NormalizeResponse" /\ out.done) =>
        /\ "result" \notin DOMAIN out.result.Callback
        /\ DOMAIN out.result.Callback = DOMAIN arg.callback \ {"result"}
        /\ \A k \in DOMAIN out.result.Callback : out.result.Callback[k] = arg.callback[k]

C20_Witness ==
    /\ arg.fn = "NormalizeResponse" /\ out.done
    /\ "result" \in DOMAIN arg.callback
    /\ DOMAIN out.result.Callback = {"x-things-id", "x-things-ids"}

\* the segments of a field between its separators, in order
Segments(id) ==
    LET commas == {i \in DOMAIN id : id[i] = ","}
        n == Cardinality(commas)
        cut(k) == IF k = 0 THEN 0
                  ELSE IF k = n + 1 THEN Len(id) + 1
                  ELSE CHOOSE i \in commas : Cardinality({j \in commas : j < i}) = k - 1
    IN  [k \in 1 .. (n + 1) |-> SubSeq(id, cut(k - 1) + 1, cut(k) - 1)]

\* a segment without the white space around it
Trimmed(seg) ==
    LET solid == {i \in DOMAIN seg : seg[i] # " "}
    IN  IF solid = {} THEN <<>>
        ELSE SubSeq(seg, CHOOSE i \in solid : \A j \in solid : i <= j,
                         CHOOSE i \in solid : \A j \in solid : i >= j)

NotEmpty(seg) == seg # <<>>

\* C21 as stated: when x-things-id contains a comma the primary ID is unset
\* and the ID list holds the non-empty segments between the commas, in order
\* and in number
C21_ListIsNonEmptySegments ==
    (/\ arg.fn = "NormalizeResponse" /\ out.done
     /\ Contains(Value(arg.callback, "x-things-id"), ",")) =>
        LET segs == SelectSeq(Segments(arg.callback["x-things-id"]), NotEmpty)
        IN  /\ out.result.ThingsID = <<>>
            /\ out.result.ThingsIDs = segs
            /\ Len(out.result.ThingsIDs) = Len(segs)

\* C21 amended: when x-things-id contains a comma the primary ID is unset and
\* the ID list ends with the segments between the commas, each without the
\* white space around it and those left empty by that dropped, in order; they
\* follow the IDs of x-things-ids, and are the whole list without that field
C21_ListIsTrimmedSegments ==
    (/\ arg.fn = "NormalizeResponse" /\ out.done
     /\ Contains(Value(arg.callback, "x-things-id"), ",")) =>
        LET all  == Segments(arg.callback["x-things-id"])
            segs == SelectSeq([k \in DOMAIN all |-> Trimmed(all[k])], NotEmpty)
            ids  == out.result.ThingsIDs
        IN  /\ out.result.ThingsID = <<>>
            /\ Len(ids) >= Len(segs)
            /\ SubSeq(ids, Len(ids) - Len(segs) + 1, Len(ids)) = segs
            /\ "x-things-ids" \notin DOMAIN arg.callback => ids = segs

C21_Witness ==
    /\ arg.fn = "NormalizeResponse" /\ out.done
    /\ Value(arg.callback, "x-things-id") = <<"A", ",", "B", ",", "C">>
    /\ out.result.ThingsID = <<>>
    /\ out.result.ThingsIDs = << <<"A">>, <<"B">>, <<"C">> >>

\* C22: for a reply that is not empty the pass-through fields are the reply
\* with the key "result" removed and nothing else: the identifier and version
\* fields stay, with their values, and no key is added
C22_PassThroughIsReplyMinusResult ==
    (arg.fn = "NormalizeResponse" /\ out.done /\ DOMAIN arg.callback # {}) =>
        LET c == out.result.Callback
        IN  /\ \A k \in DOMAIN arg.callback :
                  k # "result" => k \in DOMAIN c /\ c[k] = arg.callback[k]
            /\ \A k \in DOMAIN c : k \in DOMAIN arg.callback /\ k # "result"
            /\ out.result.ThingsID # <<>> => Value(c, "x-things-id") = out.result.ThingsID
            /\ out.result.ThingsSchemeVersion = Value(c, "x-things-scheme-version")
            /\ out.result.ThingsClientVersion = Value(c, "x-things-client-version")

C22_Witness ==
    /\ arg.fn = "NormalizeResponse" /\ out.done
    /\ DOMAIN arg.callback = {"result", "x-things-id", "title", "x-things-scheme-version"}
    /\ out.result.Callback = ("x-things-id" :> ABC123) @@ ("title" :> <<"a", " ", "b">>)
                                 @@ ("x-things-scheme-version" :> <<"2">>)
    /\ out.result.ThingsID = ABC123

\* the texts among JSONTexts that are no JSON array of strings and not null
MalformedTexts ==
    { <<"[", "\"", "A", "\"">>,
      <<"[", "\"", "A", "\"", ",", "]">>,
      <<"[", "\"", "A", "\"", "]", "x">>,
      <<"[", "[", "\"", "A", "\"", "]", "]">>,
      <<"[", "1", "]">>,
      <<"\"", "A", "\"">>,
      <<"A", ",", "B">> }

\* C23: NormalizeResponse gives a result for every reply; a field the reply
\* lacks is unset in it, and an x-things-ids that is no JSON array of strings
\* adds no ID while the other fields are extracted as they are without it
C23_NeverFails ==
    (arg.fn = "NormalizeResponse" /\ out.done) =>
        LET c == arg.callback
            r == out.result
            without == NormalizeResponse(arg.action,
                           [k \in DOMAIN c \ {"x-things-ids"} |-> c[k]])
        IN  /\ DOMAIN r = {"Action", "ThingsID", "ThingsIDs", "ThingsSchemeVersion",
                           "ThingsClientVersion", "Callback"}
            /\ r.Action = arg.action
            /\ "x-things-id" \notin DOMAIN c => r.ThingsID = <<>>
            /\ {"x-things-id", "x-things-ids"} \cap DOMAIN c = {} => r.ThingsIDs = <<>>
            /\ "x-things-scheme-version" \notin DOMAIN c => r.ThingsSchemeVersion = <<>>
            /\ "x-things-client-version" \notin DOMAIN c => r.ThingsClientVersion = <<>>
            /\ Value(c, "x-things-ids") \in MalformedTexts =>
                  /\ ~Contains(Value(c, "x-things-id"), ",") => r.ThingsIDs = <<>>
                  /\ r.ThingsIDs = without.ThingsIDs
                  /\ r.ThingsID = Value(c, "x-things-id") \/ Contains(Value(c, "x-things-id"), ",")
                  /\ r.ThingsID = without.ThingsID
                  /\ "x-things-ids" \in DOMAIN r.Callback

C23_Witness ==
    /\ arg.fn = "NormalizeResponse" /\ out.done
    /\ Value(arg.callback, "x-things-ids") = <<"[", "\"", "A", "\"">>
    /\ Value(arg.callback, "x-things-id") = <<"A">>
    /\ out.result.ThingsIDs = <<>>
    /\ out.result.ThingsID = <<"A">>

\* C24: Start on a receiver that is started returns the "already started"
\* error and leaves the server, its listener and goroutine, the started flag
\* and the delivery slot with the reply in it as they were
C24_StartTwiceChangesNothing ==
    [][(pc = "start" /\ started /\ pc' # "start") =>
           /\ pc' = "done"
           /\ ret'.returned /\ ret'.isNil /\ ret'.err.kind = "start"
           /\ UNCHANGED <<started, server, gpc, listener, stale, response, httpLog,
                          port, osBound>>]_vars

C24_Witness ==
    /\ arg.fn = "Start" /\ arg.started
    /\ pc = "done" /\ ret.err.kind = "start"
    /\ started /\ gpc = "serving" /\ listener = port
    /\ response # <<>>

\* C25: Stop on a receiver that is not started (never started, or stopped)
\* returns no error and changes nothing; a Stop that returns no error leaves
\* the receiver not started
C25_StopIdempotent ==
    [][(pc = "stop" /\ pc' # "stop") =>
           /\ out'.done
           /\ ~started =>
                 /\ ~out'.err
                 /\ UNCHANGED <<started, server, gpc, listener, stale, response,
                                httpLog, port, osBound>>
           /\ ~out'.err => ~started']_vars

C25_Witness ==
    /\ arg.fn = "Stop" /\ ~arg.started
    /\ pc = "idle" /\ out.done /\ ~out.err
    /\ server.set /\ server.inShutdown /\ ~started

\* the map holding for each key of a query the first value written for it
FirstOfEach(q) ==
    LET keys == {q[i][1] : i \in DOMAIN q}
        first(k) == CHOOSE i \in DOMAIN q :
                        q[i][1] = k /\ \A j \in 1 .. (i - 1) : q[j][1] # k
    IN  [k \in keys |-> q[first(k)][2]]

\* C26: a request to /callback, of any method, that finds the delivery slot
\* empty is answered 200 and puts into the slot the map of the first value of
\* each query key; a request to another path puts nothing into the slot
C26_CallbackPathDelivers ==
    [][Len(httpLog') = Len(httpLog) + 1 =>
           LET e == httpLog'[Len(httpLog')]
           IN  /\ (e.path = "/callback" /\ response = <<>>) =>
                     /\ e.status = StatusOK
                     /\ response' = <<FirstOfEach(e.query)>>
               /\ e.path # "/callback" =>
                     /\ e.status # StatusOK
                     /\ response' = response]_vars

C26_Witness ==
    /\ Len(httpLog) = 2
    /\ httpLog[1].path = "/callback/" /\ httpLog[1].status = StatusNotFound
    /\ httpLog[2].path = "/callback" /\ httpLog[2].method = "POST"
    /\ httpLog[2].status = StatusOK
    /\ httpLog[2].query = << <<"result", "error">>, <<"result", "success">>,
                             <<"errorCode", "E404">> >>
    /\ response = << ("result" :> "error") @@ ("errorCode" :> "E404") >>

\* C27: when open fails the cycle returns the launch error with a nil reply
\* and without any wait; the error is neither the timeout nor a
\* CallbackError; Stop has run when Execute returns and the receiver serves
\* no request any more
C27_LaunchFailureIsImmediate ==
    (launched # <<>> /\ ~launched[Len(launched)].ok) =>
        /\ pc \in {"stop", "done"}
        /\ ret.returned /\ ret.isNil
        /\ ret.err = ErrorOf("launch")
        /\ ret.err.kind \notin {"timeout", "callback"}
        /\ waits = 0
        /\ pc = "done" => stops = 1 /\ server.inShutdown /\ gpc # "serving"

C27_Witness ==
    /\ pc = "done" /\ ret.err.kind = "launch"
    /\ launched # <<>> /\ ~launched[1].ok
    /\ waits = 0 /\ stops = 1
    /\ response # <<>>

\* C28: one call of Execute searches for a port once, creates and starts at
\* most one receiver, launches the URL at most once, waits at most once and
\* stops the receiver at most once, whatever the outcome
C28_NoInternalRetry ==
    /\ [](/\ Len(launched) <= 1
          /\ waits <= 1
          /\ stops <= 1
          /\ probes <= SearchWindow + 1)
    /\ [][/\ (server' # server /\ server'.set /\ ~server'.inShutdown) =>
                (~server.set /\ ~started)
          /\ (started' /\ ~started) => (stops = 0 /\ launched = <<>>)]_vars

C28_Witness ==
    /\ pc = "done" /\ ret.err.kind = "callback"
    /\ Len(launched) = 1 /\ waits = 1 /\ stops = 1
    /\ server.inShutdown

\* the order of the positions of Execute
CycleOrder ==
    { <<"idle", "auth">>, <<"auth", "probe">>, <<"auth", "done">>,
      <<"probe", "start">>, <<"probe", "find">>, <<"find", "start">>,
      <<"find", "done">>, <<"start", "ready">>, <<"start", "done">>,
      <<"ready", "launch">>, <<"launch", "wait">>, <<"launch", "stop">>,
      <<"wait", "stop">>, <<"stop", "done">>, <<"done", "idle">> }

\* C29: a cycle goes from idle through the reservation of the port, the start
\* of the receiver, the launch and its outcome to the teardown, in this order:
\* the URL is launched only after Start has returned, the wait begins only
\* after a launch that succeeded, and Stop is the last step of every cycle
\* that started a receiver
C29_CycleOrder ==
    /\ [](/\ launched # <<>> =>
                /\ port # NoPort /\ server.set /\ ready
                /\ started \/ stops = 1
          /\ waits >= 1 => (launched # <<>> /\ launched[Len(launched)].ok)
          /\ pc = "wait" => (launched # <<>> /\ launched[Len(launched)].ok /\ stops = 0)
          /\ stops >= 1 => (pc = "done" /\ server.set)
          /\ (pc = "done" /\ launched # <<>>) => stops = 1)
    /\ [][/\ pc' # pc => <<pc, pc'>> \in CycleOrder
          /\ stops' # stops => (pc' = "done" \/ pc' = "idle")]_vars

C29_Witness ==
    /\ pc = "done" /\ ret.returned /\ ~ret.isNil /\ ret.err = NoErr
    /\ Len(launched) = 1 /\ launched[1].ok
    /\ waits = 1 /\ stops = 1 /\ ~started

\* the keys Execute writes
WrittenKeys == {"x-success", "x-error", "auth-token"}

\* C30: Execute changes the parameter map only before the launch, and then
\* only the keys x-success, x-error and auth-token (the last only when the
\* caller gave none and a token was resolved); every other key of the caller
\* keeps its value, no other key appears, and from the launch to the return
\* the map stays as it was launched
C30_ParamsFrame ==
    /\ [](pc # "idle" =>
            /\ \A k \in DOMAIN given \ WrittenKeys : k \in DOMAIN params /\ params[k] = given[k]
            /\ DOMAIN given \subseteq DOMAIN params
            /\ DOMAIN params \subseteq DOMAIN given \cup WrittenKeys
            /\ Get(given, "auth-token") # "" => params["auth-token"] = given["auth-token"]
            /\ launched # <<>> => launched[Len(launched)].params = params)
    /\ [][(launched # <<>> /\ pc' # "idle") => params' = params]_vars

C30_Witness ==
    /\ pc = "done" /\ waits = 1
    /\ given = ("title" :> "Buy milk") @@ ("auth-token" :> "")
    /\ DOMAIN params = {"title", "auth-token", "x-success", "x-error"}
    /\ params["title"] = "Buy milk" /\ params["auth-token"] = "tokE"
    /\ launched[1].params = params

\* C31: in a cycle with UseAuthIfAvailable set, RequiresAuth unset and no
\* auth-token from the caller, the client's credential is attached when there
\* is one; when there is none the cycle goes on to the port choice with no
\* auth-token added and without the authentication error.
C31_OptionalAuth ==
    (/\ opts.UseAuthIfAvailable /\ ~opts.RequiresAuth
     /\ Get(given, "auth-token") = ""
     /\ pc \notin {"idle", "auth"}) =>
        /\ ret.err.kind # "auth"
        /\ Get(params, "auth-token") = client.AuthToken
        /\ \A i \in DOMAIN launched :
               Get(launched[i].params, "auth-token") = client.AuthToken
        /\ client.AuthToken = "" =>
               /\ (pc = "probe" \/ probes >= 1)
               /\ ("auth-token" \in DOMAIN params) = ("auth-token" \in DOMAIN given)

\* both cases have launched a URL: the credential attached, and none to attach
C31_Witness ==
    /\ opts.UseAuthIfAvailable /\ ~opts.RequiresAuth
    /\ Get(given, "auth-token") = ""
    /\ launched # <<>>
    /\ \/ client.AuthToken = "tokE" /\ Get(launched[1].params, "auth-token") = "tokE"
       \/ client.AuthToken = "" /\ "auth-token" \notin DOMAIN launched[1].params

\* C32: a reply Bear sent on its error path, carrying errorCode and
\* errorMessage, that executeURL received is returned with an error.
C32_ErrorReplyIsError ==
    (/\ arg.fn = "executeURL" /\ out.done
     /\ out.wait.err = NoErr
     /\ {"errorCode", "errorMessage"} \subseteq DOMAIN out.wait.response) =>
        out.result.err # NoErr

\* a call holds a port from the choice of the port until it returns
Using(i) == cycles[i].pc \in {"start", "launch", "wait", "stop"}

\* C33: two calls running at the same time on one Client never use the same
\* callback port, and the reply a call takes is the reply to its own request.
C33_ConcurrentCyclesApart ==
    /\ \A i, j \in Calls :
           (i # j /\ Using(i) /\ Using(j)) => cycles[i].port # cycles[j].port
    /\ \A i \in Calls : cycles[i].from \in {0, i}

\* the persisted configuration does not give the field
NotGiven(file, field) == file.kind # "ok" \/ field \notin file.fields

\* C34: the timeout of a Client is strictly positive; it is 10 seconds when
\* the configuration gives no callback_timeout_seconds and the port is 8765
\* when the configuration gives no callback_port.
C34_DefaultsWhenNotGiven ==
    (arg.fn = "NewClient" /\ out.done) =>
        /\ out.client.timeout > 0
        /\ NotGiven(arg.file, "callback_timeout_seconds") =>
               out.client.timeout = DefaultCallbackTimeoutSeconds
        /\ NotGiven(arg.file, "callback_port") =>
               out.client.CallbackPort = DefaultCallbackPort

\* C35: in a cycle with neither RequiresAuth nor UseAuthIfAvailable whose
\* caller passed no auth-token, every launched URL is built from the action
\* and the caller's parameters with the two callback parameters and nothing
\* else: it has no auth-token parameter and does not depend on the
\* credential the client holds.
C35_CredentialNotLaunched ==
    (/\ ~opts.RequiresAuth /\ ~opts.UseAuthIfAvailable
     /\ "auth-token" \notin DOMAIN given) =>
        \A i \in DOMAIN launched :
            /\ "auth-token" \notin DOMAIN launched[i].params
            /\ launched[i].action = action
            /\ launched[i].params = InjectCallbacks(given, port)

\* such a cycle of a client that holds a credential has launched its URL
C35_Witness ==
    /\ opts = NoOpts
    /\ "auth-token" \notin DOMAIN given
    /\ client.AuthToken = "tokE"
    /\ launched # <<>> /\ launched[1].ok
    /\ DOMAIN launched[1].params = {"x-success", "x-error"}

\* C36: the query of the URL built from an action and a parameter map,
\* read back pair by pair with keys and values percent-decoded (with or
\* without + taken as a space), is the parameter map that was encoded, each
\* key written once; and whatever order the range over the map takes, the
\* same URL is built.
C36_QueryRoundTrip ==
    (arg.fn = "buildThingsURL" /\ out.done) =>
        LET q == QueryOf(out.url)
            m == arg.params
        IN  /\ QueryParams(q, TRUE) = m
            /\ QueryParams(q, FALSE) = m
            /\ \A k \in DOMAIN m : Len(ParseQuery([x \in {} |-> <<>>], q, TRUE)[k]) = 1
            /\ \A o \in Orders(DOMAIN m) :
                   /\ EncodeParamsRange(m, o) = q
                   /\ out.url = IF q = <<>> THEN <<"things:///", arg.action>>
                                ELSE <<"things:///", arg.action, "?">> \o q

\* a map of two keys, one with a space in it, with values that are
\* separators of the query, has been built into a URL
C36_Witness ==
    /\ arg.fn = "buildThingsURL" /\ out.done
    /\ arg.params = (KeyT :> <<"&">>) @@ (KeyAB :> <<"=">>)
    /\ QueryOf(out.url) = <<"a", "%", "2", "0", "b", "=", "%", "3", "D", "&",
                            "t", "=", "%", "2", "6">>

\* the sequence of strings each valid text of JSONTexts stands for
ArrayOf ==
    (<<"[", "\"", "A", "\"", ",", "\"", "B", "\"", "]">> :> << <<"A">>, <<"B">> >>)
    @@ (<<" ", "[", " ", "\"", "A", "\"", " ", ",", " ", "\"", "B", ",", "C", "\"", " ", "]", " ">>
            :> << <<"A">>, <<"B", ",", "C">> >>)
    @@ (<<"[", "]">> :> <<>>)
    @@ (<<"n", "u", "l", "l">> :> <<>>)
    @@ (<<"[", "n", "u", "l", "l", ",", "\"", "A", "\"", "]">> :> << <<>>, <<"A">> >>)

\* C37 as stated: the primary ID has no separator in it, and for a valid
\* x-things-ids and an x-things-id with a separator the ID list is the
\* sequence of x-things-ids followed by every segment of x-things-id
C37_ListIsBothFieldsWhole ==
    (arg.fn = "NormalizeResponse" /\ out.done) =>
        LET ids == Value(arg.callback, "x-things-ids")
            id  == Value(arg.callback, "x-things-id")
        IN  /\ ~Contains(out.result.ThingsID, ",")
            /\ (ids \in DOMAIN ArrayOf /\ Contains(id, ",")) =>
                   out.result.ThingsIDs = ArrayOf[ids] \o Segments(id)

\* C37 amended: the primary ID has no separator in it, and for a valid
\* x-things-ids and an x-things-id with a separator the ID list is the
\* sequence of x-things-ids followed by the segments of x-things-id, each
\* without the white space around it and those left empty by that left out,
\* in order
C37_ListIsBothFieldsTrimmed ==
    (arg.fn = "NormalizeResponse" /\ out.done) =>
        LET ids == Value(arg.callback, "x-things-ids")
            id  == Value(arg.callback, "x-things-id")
            all == Segments(id)
        IN  /\ ~Contains(out.result.ThingsID, ",")
            /\ (ids \in DOMAIN ArrayOf /\ Contains(id, ",")) =>
                   out.result.ThingsIDs =
                       ArrayOf[ids] \o SelectSeq([k \in DOMAIN all |-> Trimmed(all[k])], NotEmpty)

\* a reply with the array ["A","B,C"] and the single field "A, ": the blank
\* segment is left out
C37_Witness ==
    /\ arg.fn = "NormalizeResponse" /\ out.done
    /\ Value(arg.callback, "x-things-ids") \in DOMAIN ArrayOf
    /\ Len(ArrayOf[arg.callback["x-things-ids"]]) = 2
    /\ ArrayOf[arg.callback["x-things-ids"]][2] = <<"B", ",", "C">>
    /\ Value(arg.callback, "x-things-id") = <<"A", ",", " ">>
    /\ out.result.ThingsID = <<>>
    /\ out.result.ThingsIDs = << <<"A">>, <<"B", ",", "C">>, <<"A">> >>

PlainTag(t) == t # <<>> /\ \A i \in DOMAIN t : t[i] # "," /\ t[1] # " " /\ t[Len(t)] # " "

\* C39: for a list of tags each of which is not empty, holds no ',' and has
\* no white space at its ends, ParseTags of JoinTags of the list is the list.
C39_ParseJoinRoundTrip ==
    (/\ arg.fn = "ParseTags" /\ out.done
     /\ \A i \in DOMAIN arg.tags : PlainTag(arg.tags[i])) =>
        out.parsed.tags = arg.tags

\* two tags, one with a space inside, joined and parsed
C39_Witness ==
    /\ arg.fn = "ParseTags" /\ out.done
    /\ arg.tags = << <<"a", " ", "a">>, <<"a">> >>
    /\ out.joined = <<"a", " ", "a", ",", "a">>
    /\ out.parsed.tags = arg.tags

====
